---------------------------- MODULE Spec2Model ----------------------------
(* The deferred-call scheduler (frame/scheduler): agendas keyed by block,   *)
(* the name index, preimage requests and the per-block dispatch.            *)
EXTENDS Integers, Sequences, FiniteSets, TLC

(* ------------------------------ bounds --------------------------------- *)
MaxBlock == 4
MaxTasks == 4
MaxScheduledPerBlock == 2
MaximumSchedulerWeight == 6
BaseWeight == 1
ItemWeight == 1
PeriodicWeight == 1
NamedWeight == 1
ResolvedWeight == 1

(* --------------------------- configuration ----------------------------- *)
NoPreimagePostponement == 2
HARD_DEADLINE == 63

NoName == 0
Names == {1}
Priorities == {0, 126, 127}
Calls == {[i |-> 42, weight |-> 1], [i |-> 69, weight |-> 3]}
Hashes == {c.i : c \in Calls}
Periodics == {<< >>, <<1, 2>>, <<2, 2>>, <<1, 3>>}

VARIABLES now, Agenda, Lookup, requested, have, log, events, result,
          total_weight, nextId, ghost

\* The broker pallet: its storage, the relay chain's latest block, what the
\* coretime interface was told and asks, and the balance of the pallet account.
VARIABLES latest, Status, Configuration, SaleInfo, Workplan, Workload,
          InstaPoolIo, InstaPoolHistory, Reservations, Leases,
          AllowedRenewals, Coretime, pot, Regions

brokerVars == <<latest, Status, Configuration, SaleInfo, Workplan, Workload,
                InstaPoolIo, InstaPoolHistory, Reservations, Leases,
                AllowedRenewals, Coretime, pot, Regions>>

schedulerVars == <<now, Agenda, Lookup, requested, have, log, events,
                   total_weight, nextId, ghost>>

vars == <<now, Agenda, Lookup, requested, have, log, events, result,
          total_weight, nextId, ghost, brokerVars>>

(* ----------------------------- agenda store ---------------------------- *)
Get(A, t) == IF t \in DOMAIN A THEN A[t] ELSE <<>>

Put(A, t, s) == [k \in (DOMAIN A) \cup {t} |-> IF k = t THEN s ELSE A[k]]

\* Mutant: the entry stays where it is.
Remove_Keep(A, t) == A

Remove(A, t) == [k \in (DOMAIN A) \ {t} |-> A[k]]

RemoveAt(s, k) == [j \in 1..(Len(s) - 1) |-> IF j < k THEN s[j] ELSE s[j + 1]]

(* ------------------------------ preimages ------------------------------ *)
request_preimage(req, h) == [req EXCEPT ![h] = @ + 1]

\* Mutant: a request once made is never released.
unrequest_preimage_Never(req, h) == req

unrequest_preimage(req, h) == [req EXCEPT ![h] = IF @ > 0 THEN @ - 1 ELSE 0]

HaveAfterUnrequest(hv, req, h) == IF req[h] <= 1 THEN hv \ {h} ELSE hv


(* ------------------------------ name index ----------------------------- *)
LookupInsert(L, id, addr) ==
    IF id = NoName THEN L
    ELSE [n \in (DOMAIN L) \cup {id} |-> IF n = id THEN addr ELSE L[n]]

LookupRemove(L, id) == [n \in (DOMAIN L) \ {id} |-> L[n]]

\* Mutant: the name index keeps the slot numbers of the tasks that moved down.
LookupShift_Stay(L, when, index) == L

\* Slot indices are 0-based as in the pallet; a removed slot shifts the
\* later ones down, and the name index follows them.
LookupShift(L, when, index) ==
    [n \in DOMAIN L |->
        IF L[n][1] = when /\ L[n][2] > index THEN <<when, L[n][2] - 1>> ELSE L[n]]

\* Mutant: the slot stays in the agenda.
TakeSlot_Keep(A, when, index) == A

\* Mutant: an emptied agenda keeps its key.
TakeSlot_Empty(A, when, index) == Put(A, when, RemoveAt(A[when], index + 1))

\* Agenda `when` without its slot `index`; the key goes when nothing is left.
TakeSlot(A, when, index) ==
    LET rest == RemoveAt(A[when], index + 1)
    IN IF rest = << >> THEN Remove(A, when) ELSE Put(A, when, rest)

SlotExists(A, when, index) ==
    when \in DOMAIN A /\ index >= 0 /\ index < Len(A[when])

\* Mutant: an agenda always has room.
IsFull_Never(A, when) == FALSE

IsFull(A, when) == Len(Get(A, when)) >= MaxScheduledPerBlock

(* ------------------------------ call results --------------------------- *)
\* What the last call returned: the error or "Ok", the call and the arguments
\* that matter to its caller, and the coordinates it returned.
Result(err, op, args, ret) == [err |-> err, op |-> op, args |-> args, ret |-> ret]

\* DispatchTime::At and DispatchTime::After.
At(n) == [after |-> FALSE, n |-> n]

After(n) == [after |-> TRUE, n |-> n]

\* Mutant: After(n) counts from the current block.
resolve_time_NoNext(time) == IF time.after THEN now + time.n ELSE time.n

resolve_time(time) == IF time.after THEN now + time.n + 1 ELSE time.n

\* A call that returns an error changes no storage and deposits no event.
Fail(err, op, args) ==
    /\ result' = Result(err, op, args, << >>)
    /\ events' = << >>
    /\ total_weight' = 0
    /\ UNCHANGED <<now, Agenda, Lookup, requested, have, log, nextId, ghost>>
    /\ UNCHANGED brokerVars

(* --------------------------- ghost bookkeeping ------------------------- *)
GhostSet(g, uid, f, v) == [g EXCEPT ![uid] = [@ EXCEPT ![f] = v]]

None == << >>
Some(x) == <<x>>

\* The broker before it is configured: every storage item is empty.
BrokerGenesis ==
    /\ latest = 0
    /\ Status = None
    /\ Configuration = None
    /\ SaleInfo = None
    /\ Workplan = << >>
    /\ Workload = << >>
    /\ InstaPoolIo = << >>
    /\ InstaPoolHistory = << >>
    /\ Reservations = << >>
    /\ Leases = << >>
    /\ AllowedRenewals = << >>
    /\ Regions = << >>
    /\ Coretime = [assigned |-> << >>, requested |-> << >>, revenue |-> None]
    /\ pot = 0

SchedulerGenesis ==
    /\ now = 0
    /\ Agenda = << >>
    /\ Lookup = << >>
    /\ requested = [h \in Hashes |-> 0]
    /\ have = {}
    /\ log = << >>
    /\ events = << >>
    /\ total_weight = 0
    /\ nextId = 1
    /\ ghost = << >>

Init ==
    /\ BrokerGenesis
    /\ SchedulerGenesis
    /\ result = Result("Ok", "genesis", << >>, << >>)

(* ------------------------- schedule / schedule_named ------------------- *)
NewTask(uid, id, priority, origin, call, hashed, maybe_periodic) ==
    [uid |-> uid, maybe_id |-> id, priority |-> priority,
     call |-> [i |-> call.i, weight |-> call.weight, hashed |-> hashed],
     maybe_periodic |-> maybe_periodic, origin |-> origin]

\* Mutant: a block that is not in the future is accepted.
InPast_Never(when) == FALSE

InPast(when) == when <= now

\* Mutant: a live name may be scheduled again.
NameTaken_Never(id) == FALSE

NameTaken(id) == id # NoName /\ id \in DOMAIN Lookup

\* The error a schedule call returns, "Ok" when it goes through.
ScheduleError(when, id) ==
    IF InPast(when) THEN "TargetBlockNumberInPast"
    ELSE IF NameTaken(id) THEN "NameCollision"
    ELSE IF IsFull(Agenda, when) THEN "FailedToSchedule"
    ELSE "Ok"

ScheduleOp(id) == IF id = NoName THEN "schedule" ELSE "schedule_named"

do_schedule(time, maybe_periodic, priority, origin, call, hashed, id) ==
        LET when == resolve_time(time)
            index == Len(Get(Agenda, when))
            task == NewTask(nextId, id, priority, origin, call, hashed,
                            maybe_periodic)
        IN /\ ScheduleError(when, id) = "Ok"
           /\ nextId <= MaxTasks
           /\ Agenda' = Put(Agenda, when, Append(Get(Agenda, when), task))
           /\ Lookup' = LookupInsert(Lookup, id, <<when, index>>)
           /\ requested' = IF hashed THEN request_preimage(requested, call.i)
                           ELSE requested
           /\ events' = << <<"Scheduled">> >>
           /\ result' = Result("Ok", ScheduleOp(id), <<time>>, <<when, index>>)
           /\ nextId' = nextId + 1
           /\ ghost' = [u \in 1..nextId |->
                          IF u = nextId
                          THEN [when |-> when, periodic |-> maybe_periodic,
                                priority |-> priority, hashed |-> hashed,
                                weight |-> call.weight, named |-> id # NoName,
                                cancelled |-> FALSE, rescheduled |-> FALSE,
                                starved |-> FALSE]
                          ELSE ghost[u]]
           /\ total_weight' = 0
           /\ UNCHANGED <<now, have, log>>
           /\ UNCHANGED brokerVars

ScheduleFrom(Whens, Pers, Prios, Cs, Hs, Ids, Limit) ==
    \E when \in Whens, p \in Pers, prio \in Prios, call \in Cs, hashed \in Hs,
       id \in Ids :
        /\ nextId <= Limit
        /\ do_schedule(At(when), p, prio, "Root", call, hashed, id)

(* --------------------------- cancel / cancel_named --------------------- *)
\* The caller of an internal call, which is not checked against the task.
NoOrigin == "None"

\* Mutant: every origin is of equal privilege to every other.
EqualPrivilege_Any(o, owner) == TRUE

\* OriginPrivilegeCmp: two origins are of equal privilege when they are equal.
EqualPrivilege(o, owner) == o = NoOrigin \/ o = owner

CancelError(origin, when, index) ==
    IF ~SlotExists(Agenda, when, index) THEN "NotFound"
    ELSE IF ~EqualPrivilege(origin, Agenda[when][index + 1].origin) THEN "BadOrigin"
    ELSE "Ok"

do_cancel(origin, when, index) ==
        LET s == Agenda[when][index + 1]
        IN /\ CancelError(origin, when, index) = "Ok"
           /\ Agenda' = TakeSlot(Agenda, when, index)
           /\ Lookup' = LookupShift(LookupRemove(Lookup, s.maybe_id), when, index)
           /\ requested' = IF s.call.hashed
                           THEN unrequest_preimage(requested, s.call.i)
                           ELSE requested
           /\ have' = IF s.call.hashed
                      THEN HaveAfterUnrequest(have, requested, s.call.i)
                      ELSE have
           /\ events' = << <<"Canceled">> >>
           /\ result' = Result("Ok", "cancel", <<origin>>, << >>)
           /\ ghost' = GhostSet(ghost, s.uid, "cancelled", TRUE)
           /\ total_weight' = 0
           /\ UNCHANGED <<now, log, nextId>>
           /\ UNCHANGED brokerVars

Cancel ==
    \E when \in 1..(MaxBlock + 2), index \in 0..(MaxScheduledPerBlock - 1) :
        do_cancel(NoOrigin, when, index)

do_cancel_named(origin, id) ==
    /\ id \in DOMAIN Lookup
    /\ do_cancel(origin, Lookup[id][1], Lookup[id][2])

CancelNamed == \E id \in Names : do_cancel_named(NoOrigin, id)

(* ------------------------ reschedule / reschedule_named ---------------- *)
\* Mutant: a reschedule to the block the task is in is not refused.
RescheduleError_Same(when, index, new_time) ==
    IF new_time <= now THEN "TargetBlockNumberInPast"
    ELSE IF ~SlotExists(Agenda, when, index) THEN "NotFound"
    ELSE IF new_time # when /\ IsFull(Agenda, new_time) THEN "FailedToSchedule"
    ELSE "Ok"

RescheduleError(when, index, new_time) ==
    IF new_time = when THEN "RescheduleNoChange"
    ELSE IF new_time <= now THEN "TargetBlockNumberInPast"
    ELSE IF ~SlotExists(Agenda, when, index) THEN "NotFound"
    ELSE IF IsFull(Agenda, new_time) THEN "FailedToSchedule"
    ELSE "Ok"

\* Mutant: the task is put into the new agenda with the lowest priority.
do_reschedule_Demoted(when, index, new_time) ==
        LET s == [Agenda[when][index + 1] EXCEPT !.priority = 255]
            A1 == TakeSlot(Agenda, when, index)
            new_index == Len(Get(A1, new_time))
        IN /\ RescheduleError(when, index, new_time) = "Ok"
           /\ Agenda' = Put(A1, new_time, Append(Get(A1, new_time), s))
           /\ Lookup' = LookupInsert(
                            LookupShift(LookupRemove(Lookup, s.maybe_id), when, index),
                            s.maybe_id, <<new_time, new_index>>)
           /\ events' = << <<"Scheduled">> >>
           /\ result' = Result("Ok", "reschedule", << >>, <<new_time, new_index>>)
           /\ ghost' = GhostSet(ghost, s.uid, "rescheduled", TRUE)
           /\ total_weight' = 0
           /\ UNCHANGED <<now, requested, have, log, nextId>>
           /\ UNCHANGED brokerVars

\* Mutant: the moved task loses its repetitions.
do_reschedule_OneShot(when, index, new_time) ==
        LET s == [Agenda[when][index + 1] EXCEPT !.maybe_periodic = << >>]
            A1 == TakeSlot(Agenda, when, index)
            new_index == Len(Get(A1, new_time))
        IN /\ RescheduleError(when, index, new_time) = "Ok"
           /\ Agenda' = Put(A1, new_time, Append(Get(A1, new_time), s))
           /\ Lookup' = LookupInsert(
                            LookupShift(LookupRemove(Lookup, s.maybe_id), when, index),
                            s.maybe_id, <<new_time, new_index>>)
           /\ events' = << <<"Scheduled">> >>
           /\ result' = Result("Ok", "reschedule", << >>, <<new_time, new_index>>)
           /\ ghost' = GhostSet(ghost, s.uid, "rescheduled", TRUE)
           /\ total_weight' = 0
           /\ UNCHANGED <<now, requested, have, log, nextId>>
           /\ UNCHANGED brokerVars

do_reschedule(when, index, new_time) ==
        LET s == Agenda[when][index + 1]
            A1 == TakeSlot(Agenda, when, index)
            new_index == Len(Get(A1, new_time))
        IN /\ RescheduleError(when, index, new_time) = "Ok"
           /\ Agenda' = Put(A1, new_time, Append(Get(A1, new_time), s))
           /\ Lookup' = LookupInsert(
                            LookupShift(LookupRemove(Lookup, s.maybe_id), when, index),
                            s.maybe_id, <<new_time, new_index>>)
           /\ events' = << <<"Scheduled">> >>
           /\ result' = Result("Ok", "reschedule", << >>, <<new_time, new_index>>)
           /\ ghost' = GhostSet(ghost, s.uid, "rescheduled", TRUE)
           /\ total_weight' = 0
           /\ UNCHANGED <<now, requested, have, log, nextId>>
           /\ UNCHANGED brokerVars

Reschedule ==
    \E when \in 1..(MaxBlock + 2), index \in 0..(MaxScheduledPerBlock - 1),
       new_time \in 1..MaxBlock :
        do_reschedule(when, index, new_time)

do_reschedule_named(id, new_time) ==
    /\ id \in DOMAIN Lookup
    /\ do_reschedule(Lookup[id][1], Lookup[id][2], new_time)

RescheduleNamed ==
    \E id \in Names, new_time \in 1..MaxBlock : do_reschedule_named(id, new_time)

(* ------------------------- the calls, with their errors ----------------- *)
Origins == {"Root", "Signed1", "Signed2"}

\* ScheduleOrigin: root and the signed account 1.
ScheduleOrigins == {"Root", "Signed1"}

\* The errors a schedule call may return.  The past block and the taken name
\* are both reported before anything is written; which of the two is reported
\* when both hold is not fixed.
ScheduleErrors(when, id) ==
    (IF InPast(when) THEN {"TargetBlockNumberInPast"} ELSE {})
        \cup (IF NameTaken(id) THEN {"NameCollision"} ELSE {})
        \cup (IF ~InPast(when) /\ ~NameTaken(id) /\ IsFull(Agenda, when)
              THEN {"FailedToSchedule"} ELSE {})

schedule_fails(origin, time, id) ==
    \E err \in (IF origin \notin ScheduleOrigins THEN {"BadOrigin"}
                ELSE ScheduleErrors(resolve_time(time), id)) :
        Fail(err, ScheduleOp(id), <<origin, time, id>>)

\* schedule, schedule_after, schedule_named, schedule_named_after.
schedule(origin, time, maybe_periodic, priority, call, hashed, id) ==
    \/ /\ origin \in ScheduleOrigins
       /\ do_schedule(time, maybe_periodic, priority, origin, call, hashed, id)
    \/ schedule_fails(origin, time, id)

cancel_fails(origin, when, index) ==
    LET err == IF origin \notin ScheduleOrigins THEN "BadOrigin"
               ELSE CancelError(origin, when, index)
    IN /\ err # "Ok"
       /\ Fail(err, "cancel", <<origin, when, index>>)

cancel(origin, when, index) ==
    \/ /\ origin \in ScheduleOrigins
       /\ do_cancel(origin, when, index)
    \/ cancel_fails(origin, when, index)

cancel_named_fails(origin, id) ==
    LET err == IF origin \notin ScheduleOrigins THEN "BadOrigin"
               ELSE IF id \notin DOMAIN Lookup THEN "NotFound"
               ELSE CancelError(origin, Lookup[id][1], Lookup[id][2])
    IN /\ err # "Ok"
       /\ Fail(err, "cancel_named", <<origin, id>>)

cancel_named(origin, id) ==
    \/ /\ origin \in ScheduleOrigins
       /\ do_cancel_named(origin, id)
    \/ cancel_named_fails(origin, id)

reschedule_fails(when, index, new_time) ==
    /\ RescheduleError(when, index, new_time) # "Ok"
    /\ Fail(RescheduleError(when, index, new_time), "reschedule",
            <<when, index, new_time>>)

reschedule(when, index, new_time) ==
    \/ do_reschedule(when, index, new_time)
    \/ reschedule_fails(when, index, new_time)

reschedule_named_fails(id, new_time) ==
    LET err == IF id \notin DOMAIN Lookup THEN "NotFound"
               ELSE RescheduleError(Lookup[id][1], Lookup[id][2], new_time)
    IN /\ err # "Ok"
       /\ Fail(err, "reschedule_named", <<id, new_time>>)

reschedule_named(id, new_time) ==
    \/ do_reschedule_named(id, new_time)
    \/ reschedule_named_fails(id, new_time)

(* ------------------------------ note_preimage -------------------------- *)
NotePreimage ==
    \E h \in Hashes :
        /\ h \notin have
        /\ have' = have \cup {h}
        /\ events' = << >>
        /\ result' = Result("Ok", "note_preimage", << >>, << >>)
        /\ total_weight' = 0
        /\ UNCHANGED <<now, Agenda, Lookup, requested, log, nextId, ghost>>
        /\ UNCHANGED brokerVars

(* ------------------------- on_initialize (dispatch) -------------------- *)
RECURSIVE InsertByPriority(_, _)
InsertByPriority(s, x) ==
    IF s = << >> THEN <<x>>
    ELSE IF x.priority < Head(s).priority THEN <<x>> \o s
    ELSE <<Head(s)>> \o InsertByPriority(Tail(s), x)

\* Stable: equal priorities keep their slot order.
\* Mutant: the agenda is dispatched in slot order.
SortByPriority_Not(s) == s

RECURSIVE SortByPriority(_)
SortByPriority(s) ==
    IF s = << >> THEN << >>
    ELSE InsertByPriority(SortByPriority(SubSeq(s, 1, Len(s) - 1)), s[Len(s)])

\* Mutant: a call is taken to be executable whether its preimage is there or not.
IsAvailable_Always(s, hv) == TRUE

\* MarginalWeightInfo::item: the overhead of servicing one task.
item(periodic, named, resolved) ==
    ItemWeight + (IF periodic THEN PeriodicWeight ELSE 0)
               + (IF named THEN NamedWeight ELSE 0)
               + (IF resolved THEN ResolvedWeight ELSE 0)

ItemOf(s) == item(s.maybe_periodic # << >>, s.maybe_id # NoName, s.call.hashed)

IsAvailable(s, hv) == ~s.call.hashed \/ s.call.i \in hv

\* Mutant: no task is exempt from the weight limit.
IsHardDeadline_Never(s) == FALSE

IsHardDeadline(s) == s.priority < HARD_DEADLINE

\* Mutant: the dispatch drops a task that no agenda can take without an event.
DropTask_Silent(st, s, at) ==
    [st EXCEPT !.req = IF s.call.hashed THEN unrequest_preimage(@, s.call.i) ELSE @,
               !.hv = IF s.call.hashed
                      THEN HaveAfterUnrequest(@, st.req, s.call.i) ELSE @,
               !.gh = GhostSet(@, s.uid, "starved", TRUE)]

\* The dispatch drops a task that no agenda can take, with a Canceled event.
DropTask(st, s, at) ==
    [st EXCEPT !.req = IF s.call.hashed THEN unrequest_preimage(@, s.call.i) ELSE @,
               !.hv = IF s.call.hashed
                      THEN HaveAfterUnrequest(@, st.req, s.call.i) ELSE @,
               !.ev = Append(@, <<"Canceled", at, s.uid>>),
               !.gh = GhostSet(@, s.uid, "starved", TRUE)]

\* Mutant: a task is moved to the agenda of block `until` even when it is full.
Place_Force(st, s, until, at) ==
    [st EXCEPT !.A = Put(@, until, Append(Get(@, until), s)),
               !.L = LookupInsert(@, s.maybe_id, <<until, Len(Get(st.A, until))>>)]

\* Move a task of the agenda being dispatched to the agenda of block `until`.
Place(st, s, until, at) ==
    IF IsFull(st.A, until) THEN DropTask(st, s, at)
    ELSE [st EXCEPT !.A = Put(@, until, Append(Get(@, until), s)),
                    !.L = LookupInsert(@, s.maybe_id,
                                       <<until, Len(Get(st.A, until))>>)]

\* Mutant: every call that runs accrues the same overhead.
Ran_Flat(st, s, at) ==
    [st EXCEPT
       !.req = IF s.call.hashed THEN unrequest_preimage(@, s.call.i) ELSE @,
       !.hv = IF s.call.hashed
              THEN HaveAfterUnrequest(@, st.req, s.call.i) ELSE @,
       !.lg = Append(@, [at |-> at, uid |-> s.uid, i |-> s.call.i]),
       !.ev = Append(@, <<"Dispatched", at, s.uid>>),
       !.used = @ + s.call.weight + ItemWeight]

\* The call runs: it is logged, its preimage request is dropped, its weight
\* and the per-item overhead are accrued.
Ran(st, s, at) ==
    [st EXCEPT
       !.req = IF s.call.hashed THEN unrequest_preimage(@, s.call.i) ELSE @,
       !.hv = IF s.call.hashed
              THEN HaveAfterUnrequest(@, st.req, s.call.i) ELSE @,
       !.lg = Append(@, [at |-> at, uid |-> s.uid, i |-> s.call.i]),
       !.ev = Append(@, <<"Dispatched", at, s.uid>>),
       !.used = @ + s.call.weight + ItemOf(s)]

Resolved(s) == [s EXCEPT !.call = [@ EXCEPT !.hashed = FALSE]]

\* Mutant: an executed task is put back into the next agenda.
Execute_Again(st, s, at) == Place(Ran(st, s, at), Resolved(s), at + 1, at)

\* Mutant: a periodic task is put back without counting the execution.
Execute_Forever(st, s, at) ==
    IF s.maybe_periodic = << >> THEN Ran(st, s, at)
    ELSE Place(Ran(st, s, at), Resolved(s), at + s.maybe_periodic[1], at)

Execute(st, s, at) ==
    IF s.maybe_periodic = << >> THEN Ran(st, s, at)
    ELSE LET period == s.maybe_periodic[1]
             remaining == s.maybe_periodic[2] - 1
         IN IF remaining <= 0 THEN Ran(st, s, at)
            ELSE Place(Ran(st, s, at),
                       [Resolved(s) EXCEPT !.maybe_periodic = <<period, remaining>>],
                       at + period, at)

ServiceTask(st, s, at) ==
    LET st0 == [st EXCEPT !.L = LookupRemove(@, s.maybe_id)]
        cost == s.call.weight + ItemOf(s)
    IN IF ~IsAvailable(s, st.hv)
       THEN Place(st0, s, at + NoPreimagePostponement, at)
       ELSE IF IsHardDeadline(s)
                 \/ (~st.broke /\ st.used + cost <= MaximumSchedulerWeight)
       THEN Execute(st0, s, at)
       ELSE Place([st0 EXCEPT !.broke = TRUE], s, at + 1, at)

RECURSIVE ServiceAll(_, _, _, _)
ServiceAll(st, q, k, at) ==
    IF k > Len(q) THEN st
    ELSE ServiceAll(ServiceTask(st, q[k], at), q, k + 1, at)

\* The order the dispatch of block `at` visits its agenda.
DispatchOrder(A, hv, at) ==
    SortByPriority(SelectSeq(Get(A, at), LAMBDA s : IsAvailable(s, hv)))
        \o SelectSeq(Get(A, at), LAMBDA s : ~IsAvailable(s, hv))

on_initialize(at) ==
    ServiceAll([A |-> Remove(Agenda, at), L |-> Lookup, req |-> requested,
                hv |-> have, lg |-> log, ev |-> << >>, gh |-> ghost,
                used |-> BaseWeight, broke |-> FALSE],
               DispatchOrder(Agenda, have, at), 1, at)

NextBlock ==
    /\ now < MaxBlock
    /\ LET st == on_initialize(now + 1)
       IN /\ now' = now + 1
          /\ Agenda' = st.A
          /\ Lookup' = st.L
          /\ requested' = st.req
          /\ have' = st.hv
          /\ log' = st.lg
          /\ events' = st.ev
          /\ ghost' = st.gh
          /\ total_weight' = st.used
          /\ result' = Result("Ok", "on_initialize", << >>, << >>)
          /\ UNCHANGED nextId
          /\ UNCHANGED brokerVars

Heavy == {c \in Calls : c.weight = 3}

\* Every call of the pallet, on two named or anonymous light inline tasks.
Schedule ==
    ScheduleFrom(1..3, {<< >>, <<2, 2>>}, {127}, Calls \ Heavy, {FALSE},
                 {NoName} \cup Names, MaxTasks - 2)

Next ==
    \/ Schedule
    \/ Cancel
    \/ CancelNamed
    \/ Reschedule
    \/ RescheduleNamed
    \/ NextBlock

Spec == Init /\ [][Next]_vars

\* Hard and soft deadlines, inline and hashed calls.
ScheduleHard ==
    ScheduleFrom(1..2, {<< >>}, {0, 127}, Calls, BOOLEAN, {NoName},
                 MaxTasks - 1)

NextHard == ScheduleHard \/ NotePreimage \/ NextBlock

SpecHard == Init /\ [][NextHard]_vars

\* Inline calls of all priorities.
ScheduleSoft ==
    ScheduleFrom(1..3, {<< >>}, Priorities, Calls, {FALSE}, {NoName},
                 MaxTasks - 1)

NextSoft == ScheduleSoft \/ NextBlock

SpecSoft == Init /\ [][NextSoft]_vars

\* Soft-deadline calls by hash or inline, and their preimages.
SchedulePreimage ==
    ScheduleFrom(1..MaxBlock, {<< >>}, {127}, Calls, BOOLEAN, {NoName},
                 MaxTasks - 1)

NextPreimage == SchedulePreimage \/ NotePreimage \/ NextBlock

SpecPreimage == Init /\ [][NextPreimage]_vars

\* Periodic inline calls.
SchedulePeriodic ==
    ScheduleFrom(1..2, Periodics \ {<< >>}, {0, 127}, Calls, {FALSE}, {NoName},
                 MaxTasks - 1)

NextPeriodic == SchedulePeriodic \/ NextBlock

SpecPeriodic == Init /\ [][NextPeriodic]_vars

\* Heavy anonymous calls, hashed or inline, whose preimages never arrive: they
\* are cancelled, moved by their owner, run, postponed or starved.
ScheduleLoss ==
    ScheduleFrom(1..2, {<< >>}, {127}, Heavy, BOOLEAN, {NoName}, MaxTasks)

RescheduleLoss ==
    \E when \in 1..2, index \in 0..(MaxScheduledPerBlock - 1),
       new_time \in 2..3 :
        do_reschedule(when, index, new_time)

NextLoss ==
    \/ ScheduleLoss
    \/ Cancel
    \/ RescheduleLoss
    \/ NextBlock

SpecLoss == Init /\ [][NextLoss]_vars

(* ------------------------- history of a task --------------------------- *)
Uids == DOMAIN ghost

Runs(lg, u) == SelectSeq(lg, LAMBDA e : e.uid = u)

Count(u) == Len(Runs(log, u))

HoldsTask(A, t, u) == \E k \in 1..Len(Get(A, t)) : A[t][k].uid = u

InAgenda(A, u) == \E t \in DOMAIN A : HoldsTask(A, t, u)

Untouched(u) == ~ghost[u].cancelled /\ ~ghost[u].rescheduled

OneShot(u) == ghost[u].periodic = << >>

(* ------------------------------- C1 ------------------------------------ *)
\* C1 as stated: a non-periodic task scheduled at block t, never cancelled or
\* rescheduled, is never executed before t, never executed twice, and is
\* executed at or after t: from block t on it has run once or still waits in
\* an agenda to be run.
C1_Original ==
    \A u \in Uids :
        (OneShot(u) /\ Untouched(u)) =>
            /\ \A k \in 1..Len(log) : log[k].uid = u => log[k].at >= ghost[u].when
            /\ Count(u) <= 1
            /\ now >= ghost[u].when => (Count(u) = 1 \/ InAgenda(Agenda, u))

\* C1 amended: such a task is executed at most once and never before t; until
\* block t it waits in agenda t, and from block t on it has been executed
\* exactly once, or still waits in an agenda of a later block, or was
\* cancelled by the dispatch because the agenda it had to move to was full.
C1_ExactlyOnceUnlessStarved ==
    \A u \in Uids :
        (OneShot(u) /\ Untouched(u)) =>
            /\ \A k \in 1..Len(log) : log[k].uid = u => log[k].at >= ghost[u].when
            /\ Count(u) <= 1
            /\ now < ghost[u].when => HoldsTask(Agenda, ghost[u].when, u)
            /\ now >= ghost[u].when =>
                 \/ Count(u) = 1 /\ ~InAgenda(Agenda, u) /\ ~ghost[u].starved
                 \/ /\ Count(u) = 0 /\ ~ghost[u].starved
                    /\ \E t \in DOMAIN Agenda : t > now /\ HoldsTask(Agenda, t, u)
                 \/ Count(u) = 0 /\ ghost[u].starved /\ ~InAgenda(Agenda, u)

\* A task that was postponed, then executed once, and the run went on to the
\* last block without executing it again.
C1_Witness ==
    \E u \in Uids :
        /\ OneShot(u) /\ Untouched(u)
        /\ Count(u) = 1
        /\ Runs(log, u)[1].at > ghost[u].when
        /\ now = MaxBlock
        /\ now > Runs(log, u)[1].at

(* ------------------------------- C2 ------------------------------------ *)
Period(u) == ghost[u].periodic[1]

Repeats(u) == ghost[u].periodic[2]

RunAt(u, k) == Runs(log, u)[k].at

NeverPostponed(u) == ~ghost[u].hashed /\ ghost[u].priority < HARD_DEADLINE

\* C2 as stated: a periodic task scheduled at t with period p and count n,
\* never cancelled or rescheduled, is executed exactly n times, the k-th time
\* at block t + (k-1)p and at no other block, and is gone after the n-th.
C2_Original ==
    \A u \in Uids :
        (~OneShot(u) /\ Untouched(u)) =>
            /\ Count(u) <= Repeats(u)
            /\ \A k \in 1..Count(u) :
                 RunAt(u, k) = ghost[u].when + (k - 1) * Period(u)
            /\ \A k \in 1..Repeats(u) :
                 now >= ghost[u].when + (k - 1) * Period(u) => Count(u) >= k
            /\ Count(u) = Repeats(u) => ~InAgenda(Agenda, u)

\* C2 amended: such a task (p >= 1, n >= 1) is executed at most n times, first
\* at or after t and then each time at least p blocks after the time before;
\* a task that is never postponed (inline, hard deadline) is executed exactly
\* at t, t+p, ...; the task stays pending until its n-th execution unless
\* the dispatch cancels it because the agenda it has to move to is full, and
\* after the n-th execution it is in no agenda.
C2_PeriodicRuns ==
    \A u \in Uids :
        (~OneShot(u) /\ Untouched(u)) =>
            /\ Count(u) <= Repeats(u)
            /\ Count(u) >= 1 => RunAt(u, 1) >= ghost[u].when
            /\ \A k \in 2..Count(u) : RunAt(u, k) >= RunAt(u, k - 1) + Period(u)
            /\ NeverPostponed(u) =>
                 /\ \A k \in 1..Count(u) :
                      RunAt(u, k) = ghost[u].when + (k - 1) * Period(u)
                 /\ \A k \in 1..Repeats(u) :
                      (now >= ghost[u].when + (k - 1) * Period(u)
                         /\ ~ghost[u].starved) => Count(u) >= k
            /\ Count(u) = Repeats(u) => ~InAgenda(Agenda, u)
            /\ (Count(u) < Repeats(u) /\ ~ghost[u].starved) => InAgenda(Agenda, u)
            /\ ghost[u].starved => ~InAgenda(Agenda, u)

\* A task of count 3 and period 1 that ran at t, t+1 and t+2 and is gone.
C2_Witness ==
    \E u \in Uids :
        /\ ~OneShot(u) /\ Untouched(u)
        /\ Repeats(u) = 3 /\ Count(u) = 3
        /\ \A k \in 1..3 : RunAt(u, k) = ghost[u].when + (k - 1) * Period(u)
        /\ ~InAgenda(Agenda, u)
        /\ now > RunAt(u, 3)

(* ------------------------------- C3 ------------------------------------ *)
ExecutedAt(lg, u, b) == \E k \in 1..Len(lg) : lg[k].uid = u /\ lg[k].at = b

\* The step dispatches the next block.
IsDispatch == now' = now + 1

\* C3 as stated: every hard-deadline task in block t's agenda is executed in
\* block t's dispatch, whatever the weights.
C3_Original ==
    [][IsDispatch =>
         \A k \in 1..Len(Get(Agenda, now')) :
            Agenda[now'][k].priority < HARD_DEADLINE =>
                ExecutedAt(log', Agenda[now'][k].uid, now')]_vars

\* C3 amended: every hard-deadline task in block t's agenda whose call is
\* available (inline, or its preimage is there) is executed in block t's
\* dispatch, even when the hard-deadline tasks together weigh more than the
\* budget; none of them is postponed.
C3_HardDeadline ==
    [][IsDispatch =>
         \A k \in 1..Len(Get(Agenda, now')) :
            (/\ Agenda[now'][k].priority < HARD_DEADLINE
             /\ IsAvailable(Agenda[now'][k], have)) =>
                /\ ExecutedAt(log', Agenda[now'][k].uid, now')
                /\ ~InAgenda(Agenda', Agenda[now'][k].uid)]_vars

\* A dispatch that ran only hard-deadline tasks, several of them, and went
\* over the weight limit.
C3_Witness ==
    /\ Len(events) >= 2
    /\ \A k \in 1..Len(events) :
         /\ events[k][1] = "Dispatched"
         /\ events[k][2] = now
         /\ ghost[events[k][3]].priority < HARD_DEADLINE
    /\ total_weight > MaximumSchedulerWeight

(* ------------------------------- C4 ------------------------------------ *)
CostOf(u) ==
    ghost[u].weight + item(ghost[u].periodic # << >>, ghost[u].named, ghost[u].hashed)

FitsAlone(u) == BaseWeight + CostOf(u) <= MaximumSchedulerWeight

IsSoft(u) == ghost[u].priority >= HARD_DEADLINE

SlotOf(A, t, u) == CHOOSE k \in 1..Len(A[t]) : A[t][k].uid = u

\* u goes before v in the dispatch of the agenda A[t].
Before(A, t, u, v) ==
    \/ ghost[u].priority < ghost[v].priority
    \/ ghost[u].priority = ghost[v].priority /\ SlotOf(A, t, u) < SlotOf(A, t, v)

\* Two soft-deadline tasks scheduled for the same block whose weights together
\* exceed the budget of a block, u the one of lower numeric priority.
SoftPair(u, v) ==
    /\ u # v
    /\ OneShot(u) /\ OneShot(v) /\ Untouched(u) /\ Untouched(v)
    /\ IsSoft(u) /\ IsSoft(v)
    /\ ghost[u].when = ghost[v].when
    /\ BaseWeight + CostOf(u) + CostOf(v) > MaximumSchedulerWeight
    /\ \/ ghost[u].priority < ghost[v].priority
       \/ ghost[u].priority = ghost[v].priority /\ u < v

\* C4 as stated, second half: of two such tasks at block t the one of lower
\* numeric priority is executed at t and the other at t + 1.
C4_Original ==
    \A u, v \in Uids :
        SoftPair(u, v) =>
            /\ now >= ghost[u].when => ExecutedAt(log, u, ghost[u].when)
            /\ now >= ghost[v].when + 1 => ExecutedAt(log, v, ghost[v].when + 1)

\* The tasks one dispatch executes, in the order it executes them.
NewRuns == SubSeq(log', Len(log) + 1, Len(log'))

\* C4 amended: one dispatch executes tasks in ascending numeric priority, ties
\* in slot order, whatever the order they were scheduled in; the first task
\* in that order is executed when it has a hard deadline or fits the budget;
\* and when the agenda is two soft-deadline tasks that each fit but together
\* exceed the budget, the first is executed in that block and the other is
\* not: it is moved to the agenda of the next block, or cancelled with an
\* event when that agenda is full.
C4_PriorityOrder ==
    [][IsDispatch =>
         LET t == now'
             q == Get(Agenda, t)
         IN /\ \A j, k \in 1..Len(NewRuns) :
                 j < k => Before(Agenda, t, NewRuns[j].uid, NewRuns[k].uid)
            /\ \A k \in 1..Len(q) :
                 ((\A j \in 1..Len(q) : j # k => Before(Agenda, t, q[k].uid, q[j].uid))
                    /\ (~IsSoft(q[k].uid) \/ FitsAlone(q[k].uid)))
                 => (Len(NewRuns) >= 1 /\ NewRuns[1].uid = q[k].uid)
            /\ \A u, v \in Uids :
                 (/\ Len(q) = 2
                  /\ HoldsTask(Agenda, t, u) /\ HoldsTask(Agenda, t, v) /\ u # v
                  /\ IsSoft(u) /\ IsSoft(v) /\ FitsAlone(u) /\ FitsAlone(v)
                  /\ BaseWeight + CostOf(u) + CostOf(v) > MaximumSchedulerWeight
                  /\ Before(Agenda, t, u, v))
                 => /\ ExecutedAt(log', u, t)
                    /\ ~ExecutedAt(log', v, t)
                    /\ \/ HoldsTask(Agenda', t + 1, v)
                       \/ /\ ghost'[v].starved
                          /\ Len(Get(Agenda, t + 1)) >= MaxScheduledPerBlock
                          /\ \E e \in 1..Len(events') :
                                events'[e] = <<"Canceled", t, v>>]_vars

\* Two heavy soft-deadline tasks of block t, the one scheduled second with the
\* lower numeric priority: it ran at t, the other at t + 1.
C4_Witness ==
    \E u, v \in Uids :
        /\ SoftPair(u, v)
        /\ v < u
        /\ ghost[u].priority < ghost[v].priority
        /\ ExecutedAt(log, u, ghost[u].when)
        /\ ExecutedAt(log, v, ghost[u].when + 1)
        /\ Count(u) = 1 /\ Count(v) = 1


(* ------------------------------- C5 ------------------------------------ *)
TaskOf(A, u) ==
    CHOOSE s \in UNION {{A[t][k] : k \in 1..Len(A[t])} : t \in DOMAIN A} :
        s.uid = u

Left(u) == InAgenda(Agenda, u) /\ ~InAgenda(Agenda', u)

RanNow(u) == Len(Runs(log', u)) = Len(Runs(log, u)) + 1

CancelledNow(u) == ~ghost[u].cancelled /\ ghost'[u].cancelled

Signalled(u) ==
    /\ IsDispatch
    /\ \E k \in 1..Len(events') : events'[k] = <<"Canceled", now', u>>

Unavailable(u) == ~IsAvailable(TaskOf(Agenda, u), have)

\* The agenda the dispatch of block now' moves task u to when it does not run it.
MoveTarget(u) ==
    IF Unavailable(u) THEN now' + NoPreimagePostponement ELSE now' + 1

\* C5 as stated: in every step, a task that leaves the agenda store was
\* executed in that step, or explicitly cancelled in it, or was a task with an
\* unavailable preimage whose postponement target agenda is full, cancelled
\* with a Canceled event; no other task is lost.
C5_Original ==
    [][\A u \in Uids :
          Left(u) =>
              \/ RanNow(u)
              \/ CancelledNow(u)
              \/ /\ Signalled(u)
                 /\ Unavailable(u)
                 /\ IsFull(Agenda', now' + NoPreimagePostponement)]_vars

\* C5 amended: in every step, a task that leaves the agenda store was executed
\* in that step, or explicitly cancelled in it, or was cancelled by the
\* dispatch because the agenda it had to move to (t + NoPreimagePostponement
\* for an unavailable preimage, t + 1 for the weight budget) is full, and that
\* cancellation always emits a Canceled event for the task; a task of the
\* dispatched agenda that neither runs nor is cancelled is in that target
\* agenda afterwards.
C5_NoSilentLoss ==
    [][\A u \in Uids :
          /\ Left(u) =>
                \/ RanNow(u)
                \/ CancelledNow(u)
                \/ /\ Signalled(u)
                   /\ ghost'[u].starved
                   /\ IsFull(Agenda', MoveTarget(u))
          /\ (IsDispatch /\ HoldsTask(Agenda, now', u) /\ ~RanNow(u) /\ ~Left(u))
                => HoldsTask(Agenda', MoveTarget(u), u)]_vars

\* A dispatch has just cancelled an inline task that did not fit the weight
\* budget, because the next agenda was full.
C5_Witness ==
    \E u \in Uids :
        /\ ghost[u].starved
        /\ ~ghost[u].hashed
        /\ ~ghost[u].cancelled
        /\ Count(u) = 0
        /\ ~InAgenda(Agenda, u)
        /\ Len(Get(Agenda, now + 1)) = MaxScheduledPerBlock
        /\ \E k \in 1..Len(events) : events[k] = <<"Canceled", now, u>>

(* ------------------------------- C6 ------------------------------------ *)
\* The call of task s is a hash whose preimage is not there.
NoPreimage(s) == s.call.hashed /\ s.call.i \notin have

\* The events of the step that are about task u.
EventsOf(ev, u) == {e \in 1..Len(ev) : ev[e][3] = u}

\* The hashed tasks of the sequence q with hash h that are not kept waiting.
Released(q, h) ==
    {k \in 1..Len(q) :
        /\ q[k].call.hashed /\ q[k].call.i = h
        /\ (RanNow(q[k].uid) \/ ~InAgenda(Agenda', q[k].uid))}

\* C6: when the dispatch of block t finds in agenda t a hashed task whose
\* preimage is unavailable while the agenda of t + NoPreimagePostponement is
\* full, the task is cancelled: it is not executed and is in no agenda
\* afterwards, agenda t is gone, the preimage request of the task is released,
\* the dispatch emits exactly one event for the task, a Canceled one (and no
\* other event when the task was alone in its agenda), and the target agenda
\* is exactly what it was.
C6_StarvedIsCancelled ==
    [][IsDispatch =>
         LET t == now'
             q == Get(Agenda, t)
             target == t + NoPreimagePostponement
         IN IsFull(Agenda, target) =>
              /\ \A k \in 1..Len(q) :
                   NoPreimage(q[k]) =>
                      /\ ~RanNow(q[k].uid)
                      /\ ~InAgenda(Agenda', q[k].uid)
                      /\ Cardinality(EventsOf(events', q[k].uid)) = 1
                      /\ \E e \in 1..Len(events') :
                            events'[e] = <<"Canceled", t, q[k].uid>>
                      /\ Len(q) = 1 =>
                            /\ Len(events') = 1
                            /\ requested'[q[k].call.i] = requested[q[k].call.i] - 1
              /\ \A h \in Hashes :
                   requested'[h] = requested[h] - Cardinality(Released(q, h))
              /\ t \notin DOMAIN Agenda'
              /\ Len(Agenda'[target]) = MaxScheduledPerBlock
              /\ Agenda'[target] = Agenda[target]]_vars

\* The dispatch of block t has just cancelled the only task of agenda t, a
\* hashed one without preimage, because agenda t + NoPreimagePostponement is
\* full; nothing requests a preimage any more.
C6_Witness ==
    \E u \in Uids :
        /\ ghost[u].hashed /\ ghost[u].starved /\ ghost[u].when = now
        /\ events = << <<"Canceled", now, u>> >>
        /\ now \notin DOMAIN Agenda
        /\ Len(Get(Agenda, now + NoPreimagePostponement)) = MaxScheduledPerBlock
        /\ \A h \in Hashes : requested[h] = 0

(* ------------------------------- C7 ------------------------------------ *)
RECURSIVE SumCost(_)
SumCost(q) ==
    IF q = << >> THEN 0
    ELSE q[1].call.weight + ItemOf(q[1]) + SumCost(Tail(q))

\* A one-shot hashed task in the agenda of the block being dispatched, put
\* there by one postponement for its preimage.
PostponedHere(s) ==
    /\ s.call.hashed
    /\ OneShot(s.uid) /\ Untouched(s.uid)
    /\ ghost[s.uid].when + NoPreimagePostponement = now'

\* C7 as stated: a hashed task whose preimage is unavailable when its block t
\* is dispatched is not executed but is in agenda t + NoPreimagePostponement
\* afterwards; and a task so postponed whose preimage is available at the
\* dispatch of t + NoPreimagePostponement is executed there, exactly once, and
\* its preimage is no longer requested.
C7_Original ==
    [][IsDispatch =>
         LET t == now'
             q == Get(Agenda, t)
         IN \A k \in 1..Len(q) :
              /\ NoPreimage(q[k]) =>
                    /\ ~RanNow(q[k].uid)
                    /\ HoldsTask(Agenda', t + NoPreimagePostponement, q[k].uid)
              /\ (PostponedHere(q[k]) /\ ~NoPreimage(q[k])) =>
                    /\ RanNow(q[k].uid)
                    /\ Len(Runs(log', q[k].uid)) = 1
                    /\ requested'[q[k].call.i] = 0]_vars

\* C7 amended: a hashed task whose preimage is unavailable when its block t
\* is dispatched is not executed at t; it is moved to agenda
\* t + NoPreimagePostponement, keeping its preimage request, unless that
\* agenda is full, and then it is cancelled with a Canceled event.  A
\* dispatch only executes tasks of the agenda of its own block, so the task
\* is not executed in between.  A hashed task whose preimage is available at
\* the dispatch of its agenda and whose agenda fits the weight budget as a
\* whole is executed there and leaves the agenda store, and each such
\* execution releases one preimage request.
C7_Postponed ==
    [][IsDispatch =>
         LET t == now'
             q == Get(Agenda, t)
             target == t + NoPreimagePostponement
         IN /\ \A k \in 1..Len(q) :
                 /\ NoPreimage(q[k]) =>
                       /\ ~RanNow(q[k].uid)
                       /\ \/ /\ HoldsTask(Agenda', target, q[k].uid)
                             /\ requested'[q[k].call.i] >= 1
                             /\ EventsOf(events', q[k].uid) = {}
                          \/ /\ ~InAgenda(Agenda', q[k].uid)
                             /\ IsFull(Agenda', target)
                             /\ Signalled(q[k].uid)
                       /\ ~IsFull(Agenda', target) =>
                             HoldsTask(Agenda', target, q[k].uid)
                 /\ (/\ q[k].call.hashed
                     /\ OneShot(q[k].uid)
                     /\ ~NoPreimage(q[k])
                     /\ BaseWeight + SumCost(q) <= MaximumSchedulerWeight) =>
                       /\ RanNow(q[k].uid)
                       /\ ~InAgenda(Agenda', q[k].uid)
            /\ \A u \in Uids : RanNow(u) => HoldsTask(Agenda, t, u)
            /\ \A u \in Uids : Len(Runs(log', u)) <= Len(Runs(log, u)) + 1
            /\ \A h \in Hashes :
                 requested'[h] = requested[h] - Cardinality(Released(q, h))]_vars

\* The only task ever scheduled, by hash for block t, found no preimage at t,
\* and has now run at t + NoPreimagePostponement, once; its preimage is no
\* longer requested.
C7_Witness ==
    \E u \in Uids :
        /\ Uids = {u}
        /\ ghost[u].hashed /\ OneShot(u) /\ Untouched(u)
        /\ Count(u) = 1
        /\ RunAt(u, 1) = ghost[u].when + NoPreimagePostponement
        /\ now = ghost[u].when + NoPreimagePostponement
        /\ \A h \in Hashes : requested[h] = 0
        /\ Agenda = << >>

(* ------------------------------- C8 ------------------------------------ *)
\* C8: once cancel or cancel_named has succeeded on a task, the task is in no
\* agenda and no step executes it again, so a periodic task cancelled between
\* two occurrences has no further occurrence; and the cancel step itself
\* leaves every other task in its agenda, unchanged, to run as scheduled.
C8_CancelledNeverRuns ==
    [][\A u \in Uids :
          /\ ghost'[u].cancelled =>
                /\ Runs(log', u) = Runs(log, u)
                /\ ~InAgenda(Agenda', u)
          /\ CancelledNow(u) =>
                /\ InAgenda(Agenda, u)
                /\ log' = log
                /\ \A v \in Uids \ {u} :
                      /\ InAgenda(Agenda, v) <=> InAgenda(Agenda', v)
                      /\ InAgenda(Agenda, v) =>
                            /\ TaskOf(Agenda', v) = TaskOf(Agenda, v)
                            /\ \A t \in DOMAIN Agenda :
                                  HoldsTask(Agenda, t, v) => HoldsTask(Agenda', t, v)]_vars

\* A named periodic task ran once and was cancelled before its second occurrence,
\* which is now past; another task has run at or after that block.
C8_Witness ==
    \E u, v \in Uids :
        /\ u # v
        /\ ghost[u].cancelled /\ ~OneShot(u) /\ Repeats(u) >= 2
        /\ ghost[u].named
        /\ Count(u) = 1
        /\ now >= RunAt(u, 1) + Period(u)
        /\ ~ghost[v].cancelled
        /\ Count(v) >= 1
        /\ RunAt(v, Count(v)) >= RunAt(u, 1) + Period(u)

(* ------------------------------- C9 ------------------------------------ *)
\* C9 as stated: a cancel of one slot of block t's agenda leaves every other
\* task of the agenda store at the (block, slot) coordinates it had.
C9_Original ==
    [][\A u \in Uids :
          CancelledNow(u) =>
             \A t \in DOMAIN Agenda :
                \A k \in 1..Len(Agenda[t]) :
                   Agenda[t][k].uid # u =>
                      /\ t \in DOMAIN Agenda'
                      /\ k <= Len(Agenda'[t])
                      /\ Agenda'[t][k] = Agenda[t][k]]_vars

(* ------------------------------- C10 ----------------------------------- *)
\* C10: in every reachable state every agenda key holds at least one task:
\* an agenda that a cancel, a reschedule or a dispatch empties loses its key.
C10_NoEmptyAgenda ==
    \A t \in DOMAIN Agenda : Len(Agenda[t]) >= 1

\* The only task of the store has just been cancelled, before its block: no
\* agenda key is left.
C10_Witness ==
    \E u \in Uids :
        /\ ghost[u].cancelled
        /\ Count(u) = 0
        /\ now < ghost[u].when
        /\ events = << <<"Canceled">> >>
        /\ Agenda = << >>

(* ------------------------------- C11 ----------------------------------- *)
MoreNames == {1, 2}

\* schedule_named by root under two names, one-shot or periodic, with the
\* calls that fail; cancel_named; blocks.
ScheduleNamed ==
    \E when \in 1..3, p \in {<< >>, <<1, 2>>}, call \in Calls \ Heavy,
       id \in MoreNames :
        /\ nextId <= MaxTasks - 1
        /\ schedule("Root", At(when), p, 127, call, FALSE, id)

CancelNamedAny == \E id \in MoreNames : cancel_named("Root", id)

NextNamed == ScheduleNamed \/ CancelNamedAny \/ NextBlock

SpecNamed == Init /\ [][NextNamed]_vars

\* The step is a call that returned an error.
Failed == result'.err # "Ok"

\* A failed call leaves the storage as it was and deposits no event.
NoChange ==
    /\ UNCHANGED <<now, Agenda, Lookup, requested, have, log, nextId>>
    /\ events' = << >>

\* The slots of the agenda store A that hold a task named id.
SlotsNamed(A, id) ==
    UNION {{<<t, k - 1>> : k \in {j \in 1..Len(A[t]) : A[t][j].maybe_id = id}} :
              t \in DOMAIN A}

\* C11: a schedule_named call goes through only when its name denotes no
\* pending task (a periodic task between two occurrences is pending), and then
\* the name denotes exactly the new task; a call under a live name fails,
\* whatever its block, and changes nothing; a call under a name that is not
\* live is never refused for its name, and goes through when its block is in
\* the future and the agenda of that block is not full.
C11_NamedInjective ==
    [][result'.op = "schedule_named" =>
         /\ ~Failed =>
               LET new == Agenda'[result'.ret[1]][result'.ret[2] + 1]
               IN /\ new.maybe_id \notin DOMAIN Lookup
                  /\ SlotsNamed(Agenda, new.maybe_id) = {}
                  /\ SlotsNamed(Agenda', new.maybe_id) = {result'.ret}
                  /\ Lookup'[new.maybe_id] = result'.ret
         /\ Failed =>
               /\ NoChange
               /\ result'.args[3] \notin DOMAIN Lookup =>
                     /\ result'.err # "NameCollision"
                     /\ \/ resolve_time(result'.args[2]) <= now
                        \/ IsFull(Agenda, resolve_time(result'.args[2]))
         /\ \A id \in MoreNames :
               /\ Cardinality(SlotsNamed(Agenda', id)) <= 1
               /\ id \in DOMAIN Lookup' <=> SlotsNamed(Agenda', id) # {}]_vars

\* A schedule_named call has just failed on the name of a periodic task that
\* ran once and waits for its second occurrence, for a block where the call
\* would otherwise go through; the other name is free.
C11_Witness ==
    /\ result.op = "schedule_named"
    /\ result.err = "NameCollision"
    /\ resolve_time(result.args[2]) > now
    /\ ~IsFull(Agenda, resolve_time(result.args[2]))
    /\ \E t \in DOMAIN Agenda : \E k \in 1..Len(Agenda[t]) :
          /\ Agenda[t][k].maybe_id = result.args[3]
          /\ Agenda[t][k].maybe_periodic # << >>
          /\ Count(Agenda[t][k].uid) = 1
    /\ \E id \in MoreNames : id \notin DOMAIN Lookup

(* ------------------------------- C12 ----------------------------------- *)
\* schedule and schedule_named by root for absolute blocks, past or not.
ScheduleAt ==
    \E when \in 1..3, call \in Heavy, id \in {NoName} \cup Names :
        /\ nextId <= MaxTasks - 1
        /\ schedule("Root", At(when), << >>, 127, call, FALSE, id)

NextPast == ScheduleAt \/ NextBlock

SpecPast == Init /\ [][NextPast]_vars

IsScheduleCall == result'.op \in {"schedule", "schedule_named"}

\* The DispatchTime and the name the schedule call of this step was given.
CallTime == IF Failed THEN result'.args[2] ELSE result'.args[1]

CallName ==
    IF Failed THEN result'.args[3]
    ELSE Agenda'[result'.ret[1]][result'.ret[2] + 1].maybe_id

MaxAfter == 2

\* Anonymous inline calls scheduled by root a number of blocks after the next.
ScheduleAfter ==
    \E n \in 0..MaxAfter, call \in Calls :
        /\ nextId <= MaxTasks - 1
        /\ now + n + 1 <= MaxBlock + 1
        /\ schedule("Root", After(n), << >>, 127, call, FALSE, NoName)

NextAfter == ScheduleAfter \/ NextBlock

SpecAfter == Init /\ [][NextAfter]_vars

\* C13 as stated: a schedule call with After(n) at block c goes through, and
\* the coordinates it returns are in block c + n + 1.
C13_Original ==
    [][(IsScheduleCall /\ CallTime.after) =>
          /\ ~Failed
          /\ result'.ret[1] = now + CallTime.n + 1]_vars

\* C13 amended: a schedule call with After(n) at block c never fails for its
\* block; it goes through with coordinates in block c + n + 1 > c, where the
\* task then is, unless the agenda of that block is full, and then it fails
\* with FailedToSchedule and changes nothing.  No task is executed before the
\* block it was scheduled for.
C13_After ==
    [][/\ (IsScheduleCall /\ CallTime.after) =>
             LET when == now + CallTime.n + 1
             IN /\ Failed <=> IsFull(Agenda, when)
                /\ Failed => (result'.err = "FailedToSchedule" /\ NoChange)
                /\ ~Failed =>
                      /\ result'.ret = <<when, Len(Get(Agenda, when))>>
                      /\ when > now
                      /\ Agenda'[when][result'.ret[2] + 1].uid = nextId
                      /\ ghost'[nextId].when = when
       /\ \A u \in Uids : RanNow(u) => now' >= ghost[u].when]_vars

\* At block 1 a call has just been scheduled After(2): it is in agenda 4; and
\* a task scheduled for block 1 has run at block 1.
C13_Witness ==
    /\ result.op = "schedule"
    /\ result.err = "Ok"
    /\ result.args[1] = After(MaxAfter)
    /\ now = 1
    /\ result.ret[1] = now + MaxAfter + 1
    /\ HoldsTask(Agenda, now + MaxAfter + 1, nextId - 1)
    /\ \E u \in Uids : ghost[u].when = 1 /\ Count(u) = 1 /\ RunAt(u, 1) = 1

(* ------------------------------- C14 ----------------------------------- *)
\* schedule and schedule_named by root, inline or by hash, into two agendas
\* until they are full and beyond.
ScheduleFull ==
    \E when \in 1..2, call \in Calls \ Heavy, hashed \in BOOLEAN,
       id \in {NoName} \cup Names :
        schedule("Root", At(when), << >>, 127, call, hashed, id)

NextFull == ScheduleFull \/ NextBlock

SpecFull == Init /\ [][NextFull]_vars

\* C14: a schedule or schedule_named call into an agenda that holds
\* MaxScheduledPerBlock tasks fails and changes no state (agendas, name
\* index, events, preimage requests), with FailedToSchedule when the call is
\* valid otherwise (its name is not live); a call for a future block whose
\* agenda has room, under a name that is not live, goes through and makes the
\* agenda one longer, up to the maximum, and no agenda is ever longer.
C14_FullAgenda ==
    [][IsScheduleCall =>
         LET when == resolve_time(CallTime)
         IN /\ IsFull(Agenda, when) => (Failed /\ NoChange)
            /\ (IsFull(Agenda, when) /\ CallName \notin DOMAIN Lookup) =>
                   result'.err = "FailedToSchedule"
            /\ result'.err = "FailedToSchedule" =>
                   /\ NoChange
                   /\ Len(Get(Agenda, when)) = MaxScheduledPerBlock
            /\ (when > now /\ ~IsFull(Agenda, when)
                  /\ CallName \notin DOMAIN Lookup /\ nextId <= MaxTasks) => ~Failed
            /\ ~Failed =>
                   /\ Len(Agenda'[when]) = Len(Get(Agenda, when)) + 1
                   /\ \A t \in DOMAIN Agenda' :
                         Len(Agenda'[t]) <= MaxScheduledPerBlock]_vars

\* An agenda was filled to the maximum, by hash, and one more call by hash
\* for that block has just failed with FailedToSchedule: the preimage is
\* requested once for each task in the agenda.
C14_Witness ==
    /\ result.err = "FailedToSchedule"
    /\ result.op = "schedule"
    /\ Len(Get(Agenda, result.args[2].n)) = MaxScheduledPerBlock
    /\ \A k \in 1..MaxScheduledPerBlock :
          /\ Agenda[result.args[2].n][k].call.hashed
          /\ Agenda[result.args[2].n][k].call.i = 42
    /\ requested[42] = MaxScheduledPerBlock
    /\ DOMAIN Agenda = {result.args[2].n}

(* ------------------------------- C15 ----------------------------------- *)
\* Two heavy inline tasks, named or not, that root schedules and moves.
ScheduleMoved ==
    \E when \in 1..3, p \in {<< >>, <<2, 2>>}, call \in Heavy,
       id \in {NoName} \cup Names :
        /\ nextId <= MaxTasks - 2
        /\ schedule("Root", At(when), p, 127, call, FALSE, id)

RescheduleAny ==
    \E when \in 1..3, index \in 0..(MaxScheduledPerBlock - 1), new_time \in 1..3 :
        reschedule(when, index, new_time)

RescheduleNamedAny ==
    \E id \in Names, new_time \in 1..3 : reschedule_named(id, new_time)

NextMoved == ScheduleMoved \/ RescheduleAny \/ RescheduleNamedAny \/ NextBlock

SpecMoved == Init /\ [][NextMoved]_vars

\* The task a successful reschedule of this step has moved.
Moved == Agenda'[result'.ret[1]][result'.ret[2] + 1]

BlockOf(A, u) == CHOOSE t \in DOMAIN A : HoldsTask(A, t, u)

\* C15: a reschedule or reschedule_named call whose new block is the block
\* the task is in fails with RescheduleNoChange and changes nothing; a
\* reschedule that goes through moves the task to another block.
C15_NoChange ==
    [][/\ (result'.op = "reschedule" /\ Failed
             /\ SlotExists(Agenda, result'.args[1], result'.args[2])
             /\ result'.args[3] = result'.args[1]) =>
                (result'.err = "RescheduleNoChange" /\ NoChange)
       /\ (result'.op = "reschedule_named" /\ Failed
             /\ result'.args[1] \in DOMAIN Lookup
             /\ result'.args[2] = Lookup[result'.args[1]][1]) =>
                (result'.err = "RescheduleNoChange" /\ NoChange)
       /\ result'.err = "RescheduleNoChange" => NoChange
       /\ (result'.op = "reschedule" /\ ~Failed) =>
             /\ InAgenda(Agenda, Moved.uid)
             /\ BlockOf(Agenda, Moved.uid) # result'.ret[1]]_vars

\* A named task was moved to another block and a reschedule_named to that
\* same block has just failed with RescheduleNoChange.
C15_Witness ==
    /\ result.op = "reschedule_named"
    /\ result.err = "RescheduleNoChange"
    /\ result.args[1] \in DOMAIN Lookup
    /\ Lookup[result.args[1]][1] = result.args[2]
    /\ \E u \in Uids :
          /\ ghost[u].rescheduled
          /\ HoldsTask(Agenda, result.args[2], u)
          /\ ghost[u].when # result.args[2]

(* ------------------------------- C16 ----------------------------------- *)
\* A reschedule that goes through takes the task out of its agenda and puts
\* it, as it is, into the agenda of the new block, which is in the future; it
\* returns the new coordinates, and the name index follows.
MovedAsIs ==
    (result'.op = "reschedule" /\ ~Failed) =>
        LET u == Moved.uid
        IN /\ InAgenda(Agenda, u)
           /\ Moved = TaskOf(Agenda, u)
           /\ result'.ret[1] > now
           /\ \A t \in DOMAIN Agenda' : HoldsTask(Agenda', t, u) <=> t = result'.ret[1]
           /\ ~HoldsTask(Agenda', BlockOf(Agenda, u), u)
           /\ Moved.maybe_id # NoName => Lookup'[Moved.maybe_id] = result'.ret
           /\ log' = log

\* A one-shot task that was rescheduled and is in the agenda being dispatched.
RescheduledHere(s) ==
    /\ OneShot(s.uid)
    /\ ghost[s.uid].rescheduled

\* C16 as stated: a successful reschedule moves the task as it is and returns
\* its new coordinates; the task is executed only by the dispatch of the
\* block it was moved to, and that dispatch executes it, once.
C16_Original ==
    [][/\ MovedAsIs
       /\ IsDispatch =>
             /\ \A u \in Uids : RanNow(u) => HoldsTask(Agenda, now', u)
             /\ \A k \in 1..Len(Get(Agenda, now')) :
                   RescheduledHere(Agenda[now'][k]) =>
                      /\ RanNow(Agenda[now'][k].uid)
                      /\ Len(Runs(log', Agenda[now'][k].uid)) = 1]_vars

\* C16 amended: a successful reschedule moves the task as it is and returns
\* its new coordinates; a task is executed only by the dispatch of the block
\* whose agenda it is in, so a moved task is not executed at its old block;
\* the dispatch of the new block executes a one-shot inline task once when
\* the tasks of that agenda fit the weight budget together, and otherwise may
\* move it on to the next block.
C16_Rescheduled ==
    [][/\ MovedAsIs
       /\ IsDispatch =>
             /\ \A u \in Uids : RanNow(u) => HoldsTask(Agenda, now', u)
             /\ \A k \in 1..Len(Get(Agenda, now')) :
                   LET s == Agenda[now'][k]
                   IN /\ (RescheduledHere(s) /\ ~NoPreimage(s)
                            /\ BaseWeight + SumCost(Get(Agenda, now'))
                                  <= MaximumSchedulerWeight) =>
                            /\ RanNow(s.uid)
                            /\ Len(Runs(log', s.uid)) = 1
                            /\ ~InAgenda(Agenda', s.uid)
                      /\ (RescheduledHere(s) /\ ~RanNow(s.uid)) =>
                            \/ HoldsTask(Agenda', now' + 1, s.uid)
                            \/ Signalled(s.uid)]_vars

\* The only task was scheduled for block 1 and moved to block 3: it ran once,
\* at block 3, and nothing is left of it.
C16_Witness ==
    \E u \in Uids :
        /\ Uids = {u}
        /\ OneShot(u)
        /\ ghost[u].rescheduled
        /\ ghost[u].when = 1
        /\ Count(u) = 1
        /\ RunAt(u, 1) = 3
        /\ Agenda = << >>
        /\ Lookup = << >>
        /\ result.op = "on_initialize"

(* ------------------------------- C17 ----------------------------------- *)
\* Two light inline tasks, named or not, scheduled and cancelled by root and
\* by the signed accounts 1 and 2.
ScheduleSigned ==
    \E origin \in Origins, when \in 2..3, call \in Calls \ Heavy,
       id \in {NoName} \cup Names :
        /\ nextId <= MaxTasks - 2
        /\ schedule(origin, At(when), << >>, 127, call, FALSE, id)

CancelSigned ==
    \E origin \in Origins, when \in 2..3, index \in 0..(MaxScheduledPerBlock - 1) :
        cancel(origin, when, index)

CancelNamedSigned == \E origin \in Origins, id \in Names : cancel_named(origin, id)

NextSigned == ScheduleSigned \/ CancelSigned \/ CancelNamedSigned \/ NextBlock

SpecSigned == Init /\ [][NextSigned]_vars

\* C17: a cancel or cancel_named call on a pending task by an origin other
\* than the one that scheduled it (root against the task of a signed account
\* included) fails with BadOrigin and changes nothing, so the task stays
\* where it is, and the dispatch of its block executes it when the agenda
\* fits the weight budget; a cancel goes through only for the origin that
\* scheduled the task; a schedule call by an origin other than root and the
\* signed account 1 fails with BadOrigin and changes nothing, and every
\* pending task was scheduled by one of these two.
C17_BadOrigin ==
    [][/\ (result'.op = "cancel" /\ Failed
             /\ SlotExists(Agenda, result'.args[2], result'.args[3])
             /\ Agenda[result'.args[2]][result'.args[3] + 1].origin # result'.args[1]) =>
                result'.err = "BadOrigin"
       /\ (result'.op = "cancel_named" /\ Failed
             /\ result'.args[2] \in DOMAIN Lookup
             /\ Agenda[Lookup[result'.args[2]][1]][Lookup[result'.args[2]][2] + 1].origin
                   # result'.args[1]) =>
                result'.err = "BadOrigin"
       /\ (result'.op = "cancel" /\ ~Failed) =>
             \E u \in Uids :
                /\ CancelledNow(u)
                /\ TaskOf(Agenda, u).origin = result'.args[1]
       /\ (IsScheduleCall /\ Failed /\ result'.args[1] \notin {"Root", "Signed1"}) =>
             result'.err = "BadOrigin"
       /\ (IsScheduleCall /\ ~Failed) =>
             Agenda'[result'.ret[1]][result'.ret[2] + 1].origin \in {"Root", "Signed1"}
       /\ Failed => NoChange
       /\ (IsDispatch /\ BaseWeight + SumCost(Get(Agenda, now'))
                            <= MaximumSchedulerWeight) =>
             \A k \in 1..Len(Get(Agenda, now')) : RanNow(Agenda[now'][k].uid)]_vars

\* Root has just been refused, with BadOrigin, the cancel of a task that the
\* signed account 1 scheduled by name; the task is still in its agenda.
C17_Witness ==
    /\ result.op = "cancel"
    /\ result.err = "BadOrigin"
    /\ result.args[1] = "Root"
    /\ SlotExists(Agenda, result.args[2], result.args[3])
    /\ Agenda[result.args[2]][result.args[3] + 1].origin = "Signed1"
    /\ Agenda[result.args[2]][result.args[3] + 1].maybe_id # NoName
    /\ now = result.args[2] - 1

(* ------------------------------- C18 ----------------------------------- *)
\* Named and anonymous, periodic and one-shot, inline and hashed tasks.
ScheduleWeighed ==
    ScheduleFrom(1..2, {<< >>, <<1, 2>>}, {127}, Calls, BOOLEAN,
                 {NoName} \cup Names, MaxTasks - 1)

NextWeighed == ScheduleWeighed \/ NotePreimage \/ NextBlock

SpecWeighed == Init /\ [][NextWeighed]_vars

\* What the execution of task u by this step weighs: its call and the
\* overhead of a task of its kind.
RunWeight(u) ==
    ghost[u].weight
        + ItemWeight
        + (IF ghost[u].periodic # << >> THEN PeriodicWeight ELSE 0)
        + (IF ghost[u].named THEN NamedWeight ELSE 0)
        + (IF TaskOf(Agenda, u).call.hashed THEN ResolvedWeight ELSE 0)

RECURSIVE SumRuns(_)
SumRuns(runs) ==
    IF runs = << >> THEN 0 ELSE RunWeight(runs[1].uid) + SumRuns(Tail(runs))

\* C18: the weight the dispatch of block n returns is the base weight plus,
\* for each task it executed, the weight of the call and the overhead of an
\* item that is periodic or not, named or not, resolved from a hash or not;
\* the tasks it did not execute and the tasks of other blocks add nothing,
\* and the dispatch of a block without agenda returns the base weight.
C18_Weight ==
    [][IsDispatch =>
         /\ total_weight' = BaseWeight + SumRuns(NewRuns)
         /\ \A k \in 1..Len(NewRuns) : HoldsTask(Agenda, now', NewRuns[k].uid)
         /\ now' \notin DOMAIN Agenda =>
               (total_weight' = BaseWeight /\ NewRuns = << >>)]_vars

\* A dispatch has just executed an anonymous one-shot task resolved from its
\* hash and a plain one, while a third task waits in another agenda: it
\* returned the base weight, the two calls and the two overheads.
C18_Witness ==
    \E u, v \in Uids :
        /\ events = << <<"Dispatched", now, u>>, <<"Dispatched", now, v>> >>
        /\ ghost[u].hashed /\ ~ghost[u].named /\ OneShot(u)
        /\ ~ghost[v].hashed /\ ~ghost[v].named /\ OneShot(v)
        /\ total_weight = BaseWeight + ghost[u].weight + ItemWeight + ResolvedWeight
                                     + ghost[v].weight + ItemWeight
        /\ \E w \in Uids \ {u, v} : InAgenda(Agenda, w) /\ ghost[w].named

(* ======================= the broker (frame/broker) ===================== *)
MaxBalance == 65535
MaxLatest == 6
MaxRequests == 2

\* Perbill: a fraction in parts of a billion.
ACCURACY == 1000000000

Min(a, b) == IF a < b THEN a ELSE b

\* The first `digits` decimal digits of r / q for r < q, by long division.
RECURSIVE LongDiv(_, _, _, _)
LongDiv(r, q, digits, acc) ==
    IF digits = 0 THEN acc
    ELSE LongDiv((r * 10) % q, q, digits - 1, acc * 10 + ((r * 10) \div q))

\* Perbill::from_rational: p / q rounded down, one when it is not below one
\* or q is zero.
from_rational(p, q) ==
    IF q = 0 \/ p >= q THEN ACCURACY ELSE LongDiv(p, q, 9, 0)

left_from_one(parts) == ACCURACY - parts

\* Perbill * x: x * parts / ACCURACY rounded to the nearest, a tie down.  The
\* product is taken digit by digit in base 1000 to stay within the integers.
PerbillMul(parts, x) ==
    LET low == x * (parts % 1000)
        mid == x * ((parts \div 1000) % 1000) + (low \div 1000)
        high == x * (parts \div 1000000) + (mid \div 1000)
        rem == (high % 1000) * 1000000 + (mid % 1000) * 1000 + (low % 1000)
    IN  IF 2 * rem > ACCURACY THEN (high \div 1000) + 1 ELSE high \div 1000

\* Balances are unsigned of a fixed width: a sum or product in plain
\* arithmetic wraps around where overflow is not checked.
Wrap(x) == x % (MaxBalance + 1)

\* What the price is bumped by.
bump_extra(offered, ideal, sold) ==
    IF sold > ideal
    THEN IF offered > ideal THEN from_rational(sold - ideal, offered - ideal)
         ELSE 0
    ELSE IF ideal > 0 THEN left_from_one(from_rational(sold, ideal))
         ELSE 0

\* The sum old + extra * old does not fit a balance: the build with overflow
\* checks panics here, the build without them wraps.
bump_price_overflows(offered, ideal, sold, old) ==
    /\ sold > ideal
    /\ old + PerbillMul(bump_extra(offered, ideal, sold), old) > MaxBalance

bump_price(offered, ideal, sold, old) ==
    IF sold > ideal
    THEN Wrap(old + PerbillMul(bump_extra(offered, ideal, sold), old))
    ELSE old - PerbillMul(bump_extra(offered, ideal, sold), old)

\* The reserve price of the sale after old_sale.
reserve_price(old_sale) ==
    IF old_sale.cores_offered > 0
    THEN bump_price(old_sale.cores_offered, old_sale.ideal_cores_sold,
                    old_sale.cores_sold, old_sale.reserve_price)
    ELSE old_sale.reserve_price

reserve_price_overflows(old_sale) ==
    /\ old_sale.cores_offered > 0
    /\ bump_price_overflows(old_sale.cores_offered, old_sale.ideal_cores_sold,
                            old_sale.cores_sold, old_sale.reserve_price)

(* ------------------------- masks and assignments ----------------------- *)
\* A core has 80 parts, and is assigned in 57600ths.
PARTS == 80
PartsOf57600 == 57600
TimeslicePeriod == 2

complete == 0..(PARTS - 1)
count_ones(part) == Cardinality(part)

\* CoreAssignment, in the order of its variants.
Idle == [kind |-> 0, para |-> 0]
Pool == [kind |-> 1, para |-> 0]
Task(para) == [kind |-> 2, para |-> para]

ScheduleItem(assignment, part) == [assignment |-> assignment, part |-> part]
just_pool == <<ScheduleItem(Pool, complete)>>
Complete(items) == [complete |-> TRUE, schedule |-> items]

\* Schedule::truncate_from: a schedule holds at most one item per part.
truncate_from(items) == SubSeq(items, 1, Min(Len(items), PARTS))

U16(x) == x % 65536

\* Mutant: the order of the u32s is never looked at.
U32Less_Never(a, b) == FALSE

\* A u32 is held as the i32 of the same bits, so that the casts between the
\* two are the identity; this is the order of the u32s.
U32Less(a, b) ==
    IF (a < 0) = (b < 0) THEN a < b ELSE b < 0

(* ------------------------------- storage ------------------------------- *)
\* The storage a tick works on.
Broker ==
    [SaleInfo |-> SaleInfo, Workplan |-> Workplan, Workload |-> Workload,
     InstaPoolIo |-> InstaPoolIo, InstaPoolHistory |-> InstaPoolHistory,
     Leases |-> Leases, AllowedRenewals |-> AllowedRenewals,
     Coretime |-> Coretime, pot |-> pot]

\* Mutant: nothing is written.
PutAll_Nothing(m, written) == m

\* Writes every entry of the map written into the map m.
PutAll(m, written) ==
    [k \in (DOMAIN m) \cup (DOMAIN written) |->
        IF k \in DOMAIN written THEN written[k] ELSE m[k]]

IoGet(io, t) == IF t \in DOMAIN io THEN io[t] ELSE [total |-> 0, system |-> 0]

\* Mutant: only the total moves.
IoAccrue_TotalOnly(io, t, d) ==
    Put(io, t, [total |-> IoGet(io, t).total + d,
                system |-> IoGet(io, t).system])

\* InstaPoolIo::mutate(t, ..): both counts move by d.
IoAccrue(io, t, d) ==
    Put(io, t, [total |-> IoGet(io, t).total + d,
                system |-> IoGet(io, t).system + d])

RECURSIVE PoolParts(_)
\* The parts of a schedule that go to the pool.
PoolParts(items) ==
    IF items = << >> THEN 0
    ELSE (IF items[1].assignment = Pool THEN count_ones(items[1].part)
          ELSE 0) + PoolParts(Tail(items))

RECURSIVE SumPoolParts(_)
SumPoolParts(schedules) ==
    IF schedules = << >> THEN 0
    ELSE PoolParts(schedules[1]) + SumPoolParts(Tail(schedules))

current_timeslice == latest \div TimeslicePeriod

(* ------------------------------ rotate_sale ---------------------------- *)
\* Mutant: every core of the chain can be sold.
max_possible_sales_All(config, first_core) == config.core_count

\* config.core_count.saturating_sub(first_core)
max_possible_sales(config, first_core) ==
    IF config.core_count > first_core
    THEN config.core_count - first_core ELSE 0

rotate_sale(b, old_sale, config) ==
    LET unsold == old_sale.cores_sold .. (old_sale.cores_offered - 1)
        total_old_pooled == 80 * Cardinality(unsold)
        old_keys == {<<old_sale.region_begin, old_sale.first_core + i>> :
                        i \in unsold}
        plan1 == PutAll(b.Workplan, [k \in old_keys |-> just_pool])
        io1 == IoAccrue(b.InstaPoolIo, old_sale.region_begin, total_old_pooled)
        io2 == IoAccrue(io1, old_sale.region_end, 0 - total_old_pooled)
        price == reserve_price(old_sale)
        start_price == Wrap(price * 2)
        region_begin == old_sale.region_end
        region_end == region_begin + config.region_length
        R == Len(Reservations)
        total_pooled == SumPoolParts(Reservations)
        plan2 == PutAll(plan1, [k \in {<<region_begin, n - 1>> : n \in 1..R} |->
                                   Reservations[k[2] + 1]])
        io3 == IoAccrue(io2, region_begin, total_pooled)
        io4 == IoAccrue(io3, region_end, 0 - total_pooled)
        leases == b.Leases
        lease_schedule(c) ==
            <<ScheduleItem(Task(leases[c - R + 1][2]), complete)>>
        lease_cores == {R + n - 1 : n \in 1..Len(leases)}
        plan3 == PutAll(plan2, [k \in {<<region_begin, c>> : c \in lease_cores} |->
                                   lease_schedule(k[2])])
        expiring(c) == leases[c - R + 1][1] >= region_begin
        renewals == PutAll(b.AllowedRenewals,
                           [c \in {n \in lease_cores : expiring(n)} |->
                               [begin |-> region_end, price |-> price,
                                completion |-> Complete(lease_schedule(c))]])
        IsKept(lease) == ~(lease[1] >= region_begin)
        first_core == R + Len(leases)
        limit_cores_offered ==
            IF config.limit_cores_offered = None THEN 65535
            ELSE config.limit_cores_offered[1]
        cores_offered ==
            Min(limit_cores_offered, max_possible_sales(config, first_core))
        new_sale ==
            [sale_start |-> now + config.interlude_length,
             leadin_length |-> config.leadin_length,
             start_price |-> start_price,
             reserve_price |-> price,
             region_begin |-> region_begin,
             region_end |-> region_end,
             first_core |-> first_core,
             ideal_cores_sold |->
                 U16(PerbillMul(config.ideal_bulk_proportion, cores_offered)),
             cores_offered |-> cores_offered,
             cores_sold |-> 0]
    IN  [b EXCEPT !.Workplan = plan3,
                  !.InstaPoolIo = io4,
                  !.AllowedRenewals = renewals,
                  !.Leases = SelectSeq(leases, IsKept),
                  !.SaleInfo = Some(new_sale)]

\* The price arithmetic of the rotation does not fit a balance.
rotate_sale_overflows(old_sale) ==
    \/ reserve_price_overflows(old_sale)
    \/ reserve_price(old_sale) * 2 > MaxBalance

(* --------------------------- process_timeslice ------------------------- *)
\* Mutant: the delta of the timeslice is taken off the pool size.
process_pool_Reduced(timeslice, status, b) ==
    LET pool_io == IoGet(b.InstaPoolIo, timeslice)
        status1 == [status EXCEPT
                      !.pool_size = @ - pool_io.total,
                      !.system_pool_size = @ + pool_io.system]
        record == [total_contributions |-> status1.pool_size,
                   system_contributions |-> status1.system_pool_size,
                   maybe_payout |-> None]
    IN  [status |-> status1,
         b |-> [b EXCEPT
                  !.InstaPoolIo = Remove(@, timeslice),
                  !.InstaPoolHistory = Put(@, timeslice, record)]]

\* The statuses and the storage after process_pool.
process_pool(timeslice, status, b) ==
    LET pool_io == IoGet(b.InstaPoolIo, timeslice)
        status1 == [status EXCEPT
                      !.pool_size = @ + pool_io.total,
                      !.system_pool_size = @ + pool_io.system]
        record == [total_contributions |-> status1.pool_size,
                   system_contributions |-> status1.system_pool_size,
                   maybe_payout |-> None]
    IN  [status |-> status1,
         b |-> [b EXCEPT
                  !.InstaPoolIo = Remove(@, timeslice),
                  !.InstaPoolHistory = Put(@, timeslice, record)]]

\* (assignment, share) pairs are ordered by assignment, then by share.
PairLess(x, y) ==
    \/ x[1].kind < y[1].kind
    \/ x[1].kind = y[1].kind /\ x[1].para < y[1].para
    \/ x[1] = y[1] /\ x[2] < y[2]

\* x goes behind the pairs that are not greater than it.
InsertPair(sorted, x) ==
    LET before == {k \in 1..Len(sorted) : ~PairLess(x, sorted[k])}
        n == Cardinality(before)
    IN  SubSeq(sorted, 1, n) \o <<x>> \o SubSeq(sorted, n + 1, Len(sorted))

RECURSIVE SortPairs(_)
SortPairs(pairs) ==
    IF pairs = << >> THEN << >>
    ELSE InsertPair(SortPairs(SubSeq(pairs, 1, Len(pairs) - 1)),
                    pairs[Len(pairs)])

RECURSIVE Coalesce(_, _)
\* Adjacent pairs of one assignment become one pair.
Coalesce(assignment, rest) ==
    IF rest = << >> THEN assignment
    ELSE IF assignment # << >> /\ assignment[Len(assignment)][1] = rest[1][1]
         THEN Coalesce([assignment EXCEPT ![Len(assignment)] =
                           <<@[1], U16(@[2] + rest[1][2])>>], Tail(rest))
         ELSE Coalesce(Append(assignment, rest[1]), Tail(rest))

RECURSIVE SumShares(_)
SumShares(pairs) ==
    IF pairs = << >> THEN 0 ELSE pairs[1][2] + SumShares(Tail(pairs))

RECURSIVE PartsUsed(_)
PartsUsed(workplan) ==
    IF workplan = << >> THEN {}
    ELSE workplan[1].part \cup PartsUsed(Tail(workplan))

\* Mutant: the workplan replaces the workload.
Merged_Overwrite(b, timeslice, core) ==
    truncate_from(b.Workplan[<<timeslice, core>>])

\* The workplan taken for the core, with the items of the workload that
\* keep clear of it.
Merged(b, timeslice, core) ==
    LET taken == b.Workplan[<<timeslice, core>>]
        workload == Get(b.Workload, core)
        parts_used == PartsUsed(taken)
        IsFree(i) == i.part \cap parts_used = {}
    IN  truncate_from(taken \o SelectSeq(workload, IsFree))

\* The share of every item of the workplan.
Shares(workplan) ==
    [k \in 1..Len(workplan) |->
        <<workplan[k].assignment,
          U16(count_ones(workplan[k].part) * (PartsOf57600 \div PARTS))>>]

\* The shares with the idle share behind them, as they are sorted.
Intermediate(workplan) ==
    LET shares == Shares(workplan)
        total_used == U16(SumShares(shares))
    IN  IF total_used < 80
        THEN Append(shares, <<Idle, 80 - total_used>>)
        ELSE shares

\* The sum of the shares does not fit a u16: the build with overflow checks
\* panics at `total_used += i.1`, the build without them wraps.
process_core_schedule_overflows(b, timeslice, core) ==
    /\ <<timeslice, core>> \in DOMAIN b.Workplan
    /\ SumShares(Shares(Merged(b, timeslice, core))) > 65535

process_core_schedule(b, timeslice, rc_begin, core) ==
    IF <<timeslice, core>> \notin DOMAIN b.Workplan THEN b
    ELSE
      LET workplan == Merged(b, timeslice, core)
          assignment == Coalesce(<< >>, SortPairs(Intermediate(workplan)))
      IN  [b EXCEPT
             !.Workplan = Remove(@, <<timeslice, core>>),
             !.Workload = Put(@, core, workplan),
             !.Coretime.assigned =
                 Append(@, [core |-> core, begin |-> rc_begin,
                            assignment |-> assignment, end_hint |-> None])]

\* Mutant: only the first core is looked at.
process_cores_First(b, timeslice, rc_begin, from, core_count) ==
    process_core_schedule(b, timeslice, rc_begin, from)

RECURSIVE process_cores(_, _, _, _, _)
\* for core in from..core_count
process_cores(b, timeslice, rc_begin, from, core_count) ==
    IF from >= core_count THEN b
    ELSE process_cores(process_core_schedule(b, timeslice, rc_begin, from),
                       timeslice, rc_begin, from + 1, core_count)

\* Mutant: the cores are assigned from the timeslice, not from its first
\* relay chain block.
process_timeslice_Unscaled(timeslice, status, b, config) ==
    LET pooled == process_pool(timeslice, status, b)
    IN  [status |-> pooled.status,
         b |-> process_cores(pooled.b, timeslice, timeslice, 0,
                             config.core_count)]

process_timeslice(timeslice, status, b, config) ==
    LET pooled == process_pool(timeslice, status, b)
    IN  [status |-> pooled.status,
         b |-> process_cores(pooled.b, timeslice, timeslice * TimeslicePeriod,
                             0, config.core_count)]

(* ----------------------------- process_revenue ------------------------- *)
\* ConvertBalance::convert_back: a relay chain amount as a balance.
convert_back(amount) == Min(amount, MaxBalance)

\* Mutant: the product of a balance and a count wraps around.
saturating_mul_Wrapping(amount, n) == Wrap(amount * n)

\* amount.saturating_mul(n.into()) for a u32 n: a u32 beyond the i32s is
\* beyond every balance of the model.
saturating_mul(amount, n) ==
    IF amount = 0 THEN 0
    ELSE IF n < 0 \/ amount * n > MaxBalance THEN MaxBalance
    ELSE amount * n

\* balance / n.into() for a u32 n that is not zero.
DivU32(balance, n) == IF n < 0 THEN 0 ELSE balance \div n

\* Mutant: the payout is not taken from the account.
charge_Free(balance, amount) == balance

\* Currency::withdraw(who, amount, Exact, ..): all of it or an error, which
\* the caller drops.
charge(balance, amount) == IF balance >= amount THEN balance - amount ELSE balance

process_revenue(b) ==
    IF b.Coretime.revenue = None THEN [err |-> "Ok", b |-> b]
    ELSE
      LET info == b.Coretime.revenue[1]
          b0 == [b EXCEPT !.Coretime.revenue = None]
          timeslice == info.until \div TimeslicePeriod
          amount == convert_back(info.amount)
          history == b.InstaPoolHistory
          pool_record ==
              IF timeslice \in DOMAIN history THEN history[timeslice]
              ELSE [total_contributions |-> 0, system_contributions |-> 0,
                    maybe_payout |-> None]
          total == pool_record.total_contributions
          system == pool_record.system_contributions
          system_payout == DivU32(saturating_mul(amount, system), total)
          left == IF amount > system_payout THEN amount - system_payout ELSE 0
          total_left == IF U32Less(total, system) THEN 0 ELSE total - system
          paid == [b0 EXCEPT !.pot = charge(@, system_payout)]
      IN  IF amount = 0
          THEN [err |-> "Ok",
                b |-> [b0 EXCEPT !.InstaPoolHistory = Remove(@, timeslice)]]
          ELSE IF pool_record.maybe_payout # None
          THEN [err |-> "RevenueAlreadyKnown", b |-> b0]
          ELSE IF U32Less(total, system) \/ total = 0
          THEN [err |-> "InvalidContributions", b |-> b0]
          ELSE IF left # 0 /\ total_left # 0
          THEN [err |-> "Ok",
                b |-> [paid EXCEPT !.InstaPoolHistory =
                         Put(@, timeslice,
                             [total_contributions |-> total_left,
                              system_contributions |-> 0,
                              maybe_payout |-> Some(left)])]]
          ELSE [err |-> "Ok",
                b |-> [paid EXCEPT !.InstaPoolHistory = Remove(@, timeslice)]]

(* --------------------------------- do_tick ----------------------------- *)
StoreBroker(b) ==
    /\ SaleInfo' = b.SaleInfo
    /\ Workplan' = b.Workplan
    /\ Workload' = b.Workload
    /\ InstaPoolIo' = b.InstaPoolIo
    /\ InstaPoolHistory' = b.InstaPoolHistory
    /\ Leases' = b.Leases
    /\ AllowedRenewals' = b.AllowedRenewals
    /\ Coretime' = b.Coretime
    /\ pot' = b.pot
    /\ UNCHANGED <<latest, Configuration, Reservations, Regions>>

\* Mutant: a tick does not look at the clock.
IsBehind_Always(status) == TRUE

\* status.last_timeslice < Self::current_timeslice()
IsBehind(status) == status.last_timeslice < current_timeslice

saturating_inc(n) == n + 1

\* The tick past the NothingToDo check.  An error returned from here on
\* leaves what was written before it in place; only the status is not stored.
\* A price that does not fit a balance aborts the tick in a build that checks
\* overflow and wraps in one that does not.
tick_along(status0, checked) ==
    LET last_timeslice == saturating_inc(status0.last_timeslice)
        status == [status0 EXCEPT !.last_timeslice = last_timeslice]
        asked == [Broker EXCEPT !.Coretime.requested =
                     Append(@, TimeslicePeriod * last_timeslice)]
    IN  IF Configuration = None
        THEN /\ result' = Result("Uninitialized", "do_tick", << >>, << >>)
             /\ StoreBroker(asked)
             /\ UNCHANGED Status
        ELSE
          LET config == Configuration[1]
              commit_timeslice == status.last_timeslice + config.advance_notice
              rotates == /\ SaleInfo # None
                         /\ commit_timeslice >= SaleInfo[1].region_begin
              rotated == IF rotates THEN rotate_sale(asked, SaleInfo[1], config)
                         ELSE asked
              timed == process_timeslice(commit_timeslice, status, rotated, config)
              revenue == process_revenue(timed.b)
              pooled == process_pool(commit_timeslice, status, rotated).b
              overflows ==
                  \/ rotates /\ rotate_sale_overflows(SaleInfo[1])
                  \/ \E core \in 0..(config.core_count - 1) :
                        process_core_schedule_overflows(pooled,
                                                        commit_timeslice, core)
          IN  IF overflows /\ checked
              THEN /\ result' = Result("panic", "do_tick", << >>, << >>)
                   /\ UNCHANGED brokerVars
              ELSE /\ result' = Result(revenue.err, "do_tick", << >>, << >>)
                   /\ StoreBroker(revenue.b)
                   /\ Status' = IF revenue.err = "Ok" THEN Some(timed.status)
                                ELSE Status

do_tick ==
    /\ UNCHANGED schedulerVars
    /\ IF Status = None
       THEN /\ result' = Result("Uninitialized", "do_tick", << >>, << >>)
            /\ UNCHANGED brokerVars
       ELSE IF ~IsBehind(Status[1])
       THEN /\ result' = Result("NothingToDo", "do_tick", << >>, << >>)
            /\ UNCHANGED brokerVars
       ELSE \E checked \in BOOLEAN : tick_along(Status[1], checked)

(* ------------------------------ environment ---------------------------- *)
\* The relay chain produces a block.
Advance ==
    /\ latest < MaxLatest
    /\ latest' = latest + 1
    /\ result' = Result("Ok", "latest", << >>, << >>)
    /\ UNCHANGED schedulerVars
    /\ UNCHANGED <<Status, Configuration, SaleInfo, Workplan, Workload,
                   InstaPoolIo, InstaPoolHistory, Reservations, Leases,
                   AllowedRenewals, Coretime, pot, Regions>>

RevenueAmounts == {0, 5}

\* The relay chain answers a request for the revenue up to block `until`.
NotifyRevenue ==
    /\ Coretime.revenue = None
    /\ Len(Coretime.requested) <= MaxRequests
    /\ \E k \in 1..Len(Coretime.requested), amount \in RevenueAmounts :
          /\ LET until == Coretime.requested[k] IN
             Coretime' = [Coretime EXCEPT
                            !.revenue = Some([until |-> until, amount |-> amount])]
    /\ result' = Result("Ok", "notify_revenue", << >>, << >>)
    /\ UNCHANGED schedulerVars
    /\ UNCHANGED <<latest, Status, Configuration, SaleInfo, Workplan, Workload,
                   InstaPoolIo, InstaPoolHistory, Reservations, Leases,
                   AllowedRenewals, pot, Regions>>

(* --------------------------- the broker, started ----------------------- *)
CoreCount == 2

Configs ==
    {[advance_notice |-> 1, interlude_length |-> 1, leadin_length |-> 1,
      ideal_bulk_proportion |-> 500000000, limit_cores_offered |-> limit,
      region_length |-> 2, core_count |-> CoreCount] :
        limit \in {None, Some(1)}}

InitPrices == {0, 1, 10, MaxBalance \div 2 + 1}

\* The sales a started broker can be in before its first tick: the window
\* starts at timeslice 2, some of the cores on offer are sold.
Sales(config) ==
    {[sale_start |-> 1, leadin_length |-> config.leadin_length,
      start_price |-> Wrap(2 * price), reserve_price |-> price,
      region_begin |-> 2, region_end |-> 2 + config.region_length,
      first_core |-> 0,
      ideal_cores_sold |-> PerbillMul(config.ideal_bulk_proportion, offered),
      cores_offered |-> offered, cores_sold |-> sold] :
        price \in InitPrices,
        offered \in {n \in 0..config.core_count :
                        config.limit_cores_offered = None
                            \/ n <= config.limit_cores_offered[1]},
        sold \in 0..config.core_count}

\* Not yet configured, configured, or started with a first sale open, with
\* or without a lease and a region that its owner put in the pool.
InitBroker ==
    /\ SchedulerGenesis
    /\ result = Result("Ok", "genesis", << >>, << >>)
    /\ latest = 0
    /\ Workplan = << >>
    /\ Workload = << >>
    /\ InstaPoolHistory = << >>
    /\ AllowedRenewals = << >>
    /\ Regions = << >>
    /\ Coretime = [assigned |-> << >>, requested |-> << >>, revenue |-> None]
    /\ pot = 3
    /\ Configuration \in {None} \cup {Some(c) : c \in Configs}
    /\ \/ /\ Status = None
          /\ SaleInfo = None
          /\ Reservations = << >>
          /\ Leases = << >>
          /\ InstaPoolIo = << >>
       \/ /\ Configuration # None
          /\ Status = Some([last_timeslice |-> 0, pool_size |-> 0,
                            system_pool_size |-> 0])
          /\ SaleInfo \in {Some(sale) : sale \in
                             {x \in Sales(Configuration[1]) :
                                 x.cores_sold <= x.cores_offered}}
          /\ Reservations \in {<< >>, <<just_pool>>, <<just_pool, just_pool>>}
          /\ Leases \in {<< >>, << <<3, 7>> >>, << <<5, 7>> >>, << <<7, 7>> >>}
          /\ InstaPoolIo \in {<< >>, Put(<< >>, 2, [total |-> PARTS, system |-> 0])}

NextBroker == do_tick \/ Advance \/ NotifyRevenue

SpecBroker == InitBroker /\ [][NextBroker]_vars

(* ------------------------------- C19 ----------------------------------- *)
\* The step is a call of do_tick.
IsTick == result'.op = "do_tick"

\* C19: over do_tick calls interleaved with relay chain blocks, a call made
\* while Status.last_timeslice >= current_timeslice fails with NothingToDo
\* and changes no state, every successful call increases the stored
\* last_timeslice by exactly one, and last_timeslice never decreases and
\* never exceeds current_timeslice.
C19_Tick ==
    /\ [](Status # None =>
             Status[1].last_timeslice <= latest \div TimeslicePeriod)
    /\ [][/\ (IsTick /\ Status # None
                /\ Status[1].last_timeslice >= latest \div TimeslicePeriod) =>
                  (result'.err = "NothingToDo" /\ UNCHANGED brokerVars)
          /\ (IsTick /\ result'.err = "Ok") =>
                  /\ Status # None /\ Status' # None
                  /\ Status'[1].last_timeslice = Status[1].last_timeslice + 1
          /\ (Status # None) =>
                  /\ Status' # None
                  /\ Status'[1].last_timeslice >= Status[1].last_timeslice]_vars

\* Two ticks went through, each as the clock passed a timeslice, and a
\* further call at the same timeslice has just been refused.
C19_Witness ==
    /\ result = Result("NothingToDo", "do_tick", << >>, << >>)
    /\ Status # None
    /\ Status[1].last_timeslice = 2
    /\ latest \div TimeslicePeriod = 2
    /\ Len(Coretime.requested) = 2

(* ------------------------------- C20 ----------------------------------- *)
MaxSmallPrice == 20

\* The prices an outgoing sale is tried with: the small ones, and those at
\* the middle and at the end of the range of a balance.
Prices ==
    (0..MaxSmallPrice) \cup {MaxBalance \div 2, MaxBalance \div 2 + 1, MaxBalance}

Offers == {0, 1, 2, 4, 100}

\* The outgoing sales: of the cores on offer none, half or all are the ideal,
\* and from none to all of them are sold.
OldSales ==
    {[sale_start |-> 1, leadin_length |-> 1,
      start_price |-> Wrap(2 * price), reserve_price |-> price,
      region_begin |-> 2, region_end |-> 4, first_core |-> 0,
      ideal_cores_sold |-> ideal, cores_offered |-> offered,
      cores_sold |-> sold] :
        price \in Prices,
        offered \in Offers,
        ideal \in {0} \cup {n \div 2 : n \in Offers} \cup Offers,
        sold \in {0} \cup {n \div 5 : n \in Offers} \cup {n \div 2 : n \in Offers}
                 \cup {(51 * n) \div 100 : n \in Offers}
                 \cup {(4 * n) \div 5 : n \in Offers} \cup Offers}

InitPrice ==
    /\ SchedulerGenesis
    /\ result = Result("Ok", "genesis", << >>, << >>)
    /\ latest = 0
    /\ Status = Some([last_timeslice |-> 0, pool_size |-> 0,
                      system_pool_size |-> 0])
    /\ Configuration \in {Some(c) : c \in Configs}
    /\ SaleInfo \in {Some(sale) : sale \in
                       {x \in OldSales :
                           /\ x.ideal_cores_sold <= x.cores_offered
                           /\ x.cores_sold <= x.cores_offered}}
    /\ Workplan = << >>
    /\ Workload = << >>
    /\ InstaPoolIo = << >>
    /\ InstaPoolHistory = << >>
    /\ Reservations = << >>
    /\ Leases = << >>
    /\ AllowedRenewals = << >>
    /\ Regions = << >>
    /\ Coretime = [assigned |-> << >>, requested |-> << >>, revenue |-> None]
    /\ pot = 0

\* The reserve price that a rotation out of the open sale computes; where it
\* does not fit a balance the build decides between a panic and a wrap.
ReservePrice ==
    /\ SaleInfo # None
    /\ \E checked \in BOOLEAN :
          IF reserve_price_overflows(SaleInfo[1]) /\ checked
          THEN result' = Result("panic", "reserve_price", <<SaleInfo[1]>>, << >>)
          ELSE result' = Result("Ok", "reserve_price", <<SaleInfo[1]>>,
                                <<reserve_price(SaleInfo[1])>>)
    /\ UNCHANGED schedulerVars
    /\ UNCHANGED brokerVars

NextPrice == ReservePrice

SpecPrice == InitPrice /\ [][NextPrice]_vars

\* C20: the reserve price computed at rotation from (offered, ideal, sold,
\* old price P) is strictly greater than P whenever sold > ideal with
\* offered > 0, strictly less than P whenever sold < ideal, and equal to P
\* when offered = 0, for every old price P.
C20_Original ==
    [][(result'.op = "reserve_price" /\ result'.err = "Ok") =>
         LET old_sale == result'.args[1]
             P == old_sale.reserve_price
             price == result'.ret[1]
         IN  /\ (old_sale.cores_sold > old_sale.ideal_cores_sold
                   /\ old_sale.cores_offered > 0) => price > P
             /\ (old_sale.cores_sold < old_sale.ideal_cores_sold) => price < P
             /\ (old_sale.cores_offered = 0) => price = P]_vars

(* ------------------------------- C21 ----------------------------------- *)
\* The step is a tick that went through.
TickedOk == IsTick /\ result'.err = "Ok"

\* The timeslice that the tick of this step committed.
Committed == Status'[1].last_timeslice + Configuration[1].advance_notice

\* The assign_core calls that this step made.
NewAssigned ==
    SubSeq(Coretime'.assigned, Len(Coretime.assigned) + 1,
           Len(Coretime'.assigned))

Rotated == SaleInfo # None /\ Committed >= SaleInfo[1].region_begin

\* The workplan keys that the rotation of this step wrote for the unsold
\* cores of the outgoing sale.
UnsoldKeys ==
    IF Rotated
    THEN {<<SaleInfo[1].region_begin, SaleInfo[1].first_core + i>> :
             i \in SaleInfo[1].cores_sold .. (SaleInfo[1].cores_offered - 1)}
    ELSE {}

\* Core `core` has a workplan when the tick of this step commits.
HasWorkplan(core) ==
    \/ <<Committed, core>> \in DOMAIN Workplan
    \/ <<Committed, core>> \in UnsoldKeys

CoreMasks == {0..(PARTS \div 2 - 1), (PARTS \div 2)..(PARTS - 1), complete}

CoreItems ==
    {ScheduleItem(a, part) : a \in {Pool, Task(1), Task(2)}, part \in CoreMasks}

\* The schedules of at most two items.
CoreSchedules ==
    {<< >>} \cup {<<i>> : i \in CoreItems}
            \cup {<<i, k>> : i \in CoreItems, k \in CoreItems}

\* Core 0 before timeslice 2 is committed: with or without a workplan for
\* it, and with any workload carried forward.
InitCore ==
    /\ SchedulerGenesis
    /\ result = Result("Ok", "genesis", << >>, << >>)
    /\ latest = 0
    /\ Status = Some([last_timeslice |-> 0, pool_size |-> 0,
                      system_pool_size |-> 0])
    /\ Configuration \in {Some(c) : c \in Configs}
    /\ SaleInfo = None
    /\ Workplan \in {<< >>} \cup {Put(<< >>, <<2, 0>>, w) : w \in CoreSchedules}
    /\ Workload \in {Put(<< >>, 0, w) : w \in CoreSchedules}
    /\ InstaPoolIo = << >>
    /\ InstaPoolHistory = << >>
    /\ Reservations = << >>
    /\ Leases = << >>
    /\ AllowedRenewals = << >>
    /\ Regions = << >>
    /\ Coretime = [assigned |-> << >>, requested |-> << >>, revenue |-> None]
    /\ pot = 0

\* process_core_schedule for core 0 at timeslice 2.
ProcessCore ==
    /\ \E checked \in BOOLEAN :
          IF process_core_schedule_overflows(Broker, 2, 0) /\ checked
          THEN /\ result' = Result("panic", "process_core_schedule",
                                  <<2, 0>>, << >>)
               /\ UNCHANGED <<latest, Configuration, SaleInfo, Workplan,
                              Workload, InstaPoolIo, InstaPoolHistory,
                              Reservations, Leases, AllowedRenewals,
                              Coretime, pot, Regions>>
          ELSE /\ StoreBroker(process_core_schedule(Broker, 2,
                                                    2 * TimeslicePeriod, 0))
               /\ result' = Result("Ok", "process_core_schedule",
                                   <<2, 0>>, << >>)
    /\ UNCHANGED Status
    /\ UNCHANGED schedulerVars

NextCore == ProcessCore

SpecCore == InitCore /\ [][NextCore]_vars

\* No two items of the schedule share a part.
Disjoint(items) ==
    \A i, k \in 1..Len(items) : i # k => items[i].part \cap items[k].part = {}

\* The parts of a core that none of the items uses.
Unused(items) == PARTS - Cardinality(UNION {items[k].part : k \in 1..Len(items)})

\* The step processed a core and sent its assignment.
Emitted == result'.op = "process_core_schedule" /\ NewAssigned # << >>

\* C22: every assignment list emitted by process_core_schedule for a merged
\* workload with pairwise-disjoint masks has shares that sum to the core's
\* full capacity of 57600 parts (each of the 80 mask bits counting 720
\* parts), with any unused fraction filled by an explicit Idle entry.
C22_Original ==
    [][(Emitted /\ Disjoint(Workload'[NewAssigned[1].core])) =>
         LET assignment == NewAssigned[1].assignment
             merged == Workload'[NewAssigned[1].core]
         IN  /\ SumShares(assignment) = 57600
             /\ Unused(merged) > 0 =>
                   \E k \in 1..Len(assignment) :
                       assignment[k] = <<Idle, Unused(merged) * 720>>]_vars

(* ------------------------------- C23 ----------------------------------- *)
\* The step is a tick that went through and rotated the sale.
RotatedOk == TickedOk /\ Rotated

\* The core that the n-th lease takes in a rotation.
LeaseCore(n) == Len(Reservations) + n - 1

\* C23: during a rotation into the window [region_begin, region_end), every
\* lease in Leases occupies the next core index after the reservations, and
\* a lease is converted into an AllowedRenewals record (begin = region_end,
\* price = new reserve price, completion = Complete) and removed from Leases
\* exactly when its end (until) falls within that window; a lease that
\* extends beyond region_end stays in Leases and gets no renewal record.
C23_Original ==
    [][RotatedOk =>
         LET region_begin == SaleInfo'[1].region_begin
             region_end == SaleInfo'[1].region_end
             Within(lease) == lease[1] >= region_begin /\ lease[1] < region_end
             InLeases(lease) == \E k \in 1..Len(Leases') : Leases'[k] = lease
             planned(n) ==
                 <<ScheduleItem(Task(Leases[n][2]), complete)>>
         IN  \A n \in 1..Len(Leases) :
                /\ <<region_begin, LeaseCore(n)>> \in DOMAIN Workplan'
                /\ Workplan'[<<region_begin, LeaseCore(n)>>] = planned(n)
                /\ Within(Leases[n]) =>
                      /\ ~InLeases(Leases[n])
                      /\ LeaseCore(n) \in DOMAIN AllowedRenewals'
                      /\ AllowedRenewals'[LeaseCore(n)] =
                            [begin |-> region_end,
                             price |-> SaleInfo'[1].reserve_price,
                             completion |-> Complete(planned(n))]
                /\ ~Within(Leases[n]) =>
                      /\ InLeases(Leases[n])
                      /\ LeaseCore(n) \notin DOMAIN AllowedRenewals']_vars

(* ------------------------------- C24 ----------------------------------- *)
\* C24: every SaleInfo written by rotate_sale has cores_sold = 0,
\* cores_offered = min(limit_cores_offered or unlimited, core_count -
\* first_core saturating at 0) and ideal_cores_sold = ideal_bulk_proportion *
\* cores_offered <= cores_offered, so the offered indices [first_core,
\* first_core + cores_offered) never overlap a core given to a reservation
\* or lease and never reach core_count or beyond.
C24_NewSale ==
    [][RotatedOk =>
         LET sale == SaleInfo'[1]
             config == Configuration[1]
             left == IF config.core_count > sale.first_core
                     THEN config.core_count - sale.first_core ELSE 0
             offered == sale.first_core
                          .. (sale.first_core + sale.cores_offered - 1)
         IN  /\ sale.cores_sold = 0
             /\ sale.first_core = Len(Reservations) + Len(Leases)
             /\ sale.cores_offered =
                   IF config.limit_cores_offered = None THEN left
                   ELSE Min(config.limit_cores_offered[1], left)
             /\ sale.ideal_cores_sold =
                   PerbillMul(config.ideal_bulk_proportion, sale.cores_offered)
             /\ sale.ideal_cores_sold <= sale.cores_offered
             /\ \A c \in offered :
                   /\ c < config.core_count
                   /\ c >= Len(Reservations) + Len(Leases)
                   /\ <<sale.region_begin, c>> \notin DOMAIN Workplan']_vars

\* A rotation has just given core 0 to a reservation or a lease and put the
\* other core on offer.
C24_Witness ==
    /\ result = Result("Ok", "do_tick", << >>, << >>)
    /\ SaleInfo # None
    /\ SaleInfo[1].region_begin = 4
    /\ SaleInfo[1].first_core = 1
    /\ SaleInfo[1].cores_offered = 1
    /\ <<4, 0>> \in DOMAIN Workplan

(* ------------------------------- C25 ----------------------------------- *)
Contributions == {0, 1, PARTS, 2 * PARTS}

\* The history records that a revenue answer may meet: as process_pool
\* writes them, without a payout, or as process_revenue leaves them, with a
\* payout for the contributions that are not the system's.
HistoryRecords ==
    {[total_contributions |-> total, system_contributions |-> system,
      maybe_payout |-> None] :
        total \in Contributions, system \in Contributions}
    \cup
    {[total_contributions |-> total, system_contributions |-> 0,
      maybe_payout |-> Some(9)] : total \in Contributions \ {0}}

AnsweredAmounts == {0, 1, 5, 7, 1000, MaxBalance}

\* A revenue answer waits for the tick: it is for timeslice 1, which has a
\* history record or none, or for timeslice 2, which has none.
InitRevenue ==
    /\ SchedulerGenesis
    /\ result = Result("Ok", "genesis", << >>, << >>)
    /\ latest = 0
    /\ Status = Some([last_timeslice |-> 0, pool_size |-> 0,
                      system_pool_size |-> 0])
    /\ Configuration \in {Some(c) : c \in Configs}
    /\ SaleInfo = None
    /\ Workplan = << >>
    /\ Workload = << >>
    /\ InstaPoolIo = << >>
    /\ InstaPoolHistory \in {<< >>} \cup {Put(<< >>, 1, r) : r \in HistoryRecords}
    /\ Reservations = << >>
    /\ Leases = << >>
    /\ AllowedRenewals = << >>
    /\ Regions = << >>
    /\ \E until \in {TimeslicePeriod, 2 * TimeslicePeriod},
          amount \in AnsweredAmounts :
          Coretime = [assigned |-> << >>,
                      requested |-> <<TimeslicePeriod, 2 * TimeslicePeriod>>,
                      revenue |-> Some([until |-> until, amount |-> amount])]
    /\ pot \in {0, 3, MaxBalance}

\* process_revenue, as a tick calls it.
ProcessRevenue ==
    /\ LET revenue == process_revenue(Broker)
       IN  /\ StoreBroker(revenue.b)
           /\ result' = Result(revenue.err, "process_revenue",
                               Coretime.revenue, << >>)
    /\ UNCHANGED Status
    /\ UNCHANGED schedulerVars

NextRevenue == ProcessRevenue \/ NotifyRevenue

SpecRevenue == InitRevenue /\ [][NextRevenue]_vars

\* The step is process_revenue with an answer at hand.
Answered == result'.op = "process_revenue" /\ Coretime.revenue # None

\* The timeslice and the amount of the answer at hand.
AnsweredSlice == Coretime.revenue[1].until \div TimeslicePeriod
AnsweredAmount == Min(Coretime.revenue[1].amount, MaxBalance)

\* The history record of the timeslice of the answer, or the default one.
AnsweredRecord ==
    IF AnsweredSlice \in DOMAIN InstaPoolHistory
    THEN InstaPoolHistory[AnsweredSlice]
    ELSE [total_contributions |-> 0, system_contributions |-> 0,
          maybe_payout |-> None]

\* The answer is for a nonzero amount and meets a valid record.
ValidRevenue ==
    /\ Answered
    /\ AnsweredAmount # 0
    /\ AnsweredRecord.maybe_payout = None
    /\ AnsweredRecord.total_contributions >= AnsweredRecord.system_contributions
    /\ AnsweredRecord.system_contributions >= 0
    /\ AnsweredRecord.total_contributions > 0

\* What process_revenue leaves behind when the system payout is `payout`.
SplitAs(payout) ==
    LET remainder == AnsweredAmount - payout
        total_left == AnsweredRecord.total_contributions
                        - AnsweredRecord.system_contributions
    IN  /\ result'.err = "Ok"
        /\ payout + remainder <= AnsweredAmount
        /\ pot >= payout => pot' = pot - payout
        /\ IF remainder # 0 /\ total_left # 0
           THEN /\ AnsweredSlice \in DOMAIN InstaPoolHistory'
                /\ InstaPoolHistory'[AnsweredSlice] =
                      [total_contributions |-> total_left,
                       system_contributions |-> 0,
                       maybe_payout |-> Some(remainder)]
           ELSE AnsweredSlice \notin DOMAIN InstaPoolHistory'

\* C25: when process_revenue handles a nonzero amount for a valid history
\* record, the system payout is floor(amount * system_contributions /
\* total_contributions), the record's total_contributions is reduced by
\* system_contributions and system_contributions becomes 0, and the
\* remainder amount - system payout is recorded as maybe_payout when both it
\* and the remaining total are nonzero (otherwise the record is removed);
\* system payout plus recorded remainder never exceeds amount.
C25_Original ==
    [][ValidRevenue =>
         SplitAs((AnsweredAmount * AnsweredRecord.system_contributions)
                    \div AnsweredRecord.total_contributions)]_vars

\* C25 (as the code has it): the same, with the product amount *
\* system_contributions saturating at the largest balance before it is
\* divided by total_contributions.
C25_Split ==
    [][ValidRevenue =>
         SplitAs(Min(AnsweredAmount * AnsweredRecord.system_contributions,
                     MaxBalance)
                    \div AnsweredRecord.total_contributions)]_vars

\* An amount of 5 has just been split over a record of 160 contributions,
\* 80 of them the system's: 2 were paid out of the account, 3 are recorded
\* for the 80 contributions left.
C25_Witness ==
    /\ result = Result("Ok", "process_revenue",
                       Some([until |-> TimeslicePeriod, amount |-> 5]), << >>)
    /\ 1 \in DOMAIN InstaPoolHistory
    /\ InstaPoolHistory[1] = [total_contributions |-> PARTS,
                              system_contributions |-> 0,
                              maybe_payout |-> Some(3)]
    /\ pot = 1

(* ------------------------------- C26 ----------------------------------- *)
\* process_revenue has left the history and the account as they were.
RevenueUntouched == InstaPoolHistory' = InstaPoolHistory /\ pot' = pot

\* process_revenue has succeeded, removed the history entry of the answer's
\* timeslice and nothing else, and charged nothing.
Cleared ==
    /\ result'.err = "Ok"
    /\ AnsweredSlice \notin DOMAIN InstaPoolHistory'
    /\ \A t \in DOMAIN InstaPoolHistory \ {AnsweredSlice} :
          /\ t \in DOMAIN InstaPoolHistory'
          /\ InstaPoolHistory'[t] = InstaPoolHistory[t]
    /\ pot' = pot

\* The history record of the answer's timeslice has no contributions.
ZeroBase == AnsweredRecord.total_contributions = 0

\* C26: a revenue notification whose amount is zero, or whose timeslice has
\* a zero contributor base (total_contributions = 0), is treated as a no-op
\* clearing: process_revenue succeeds, removes that timeslice's
\* InstaPoolHistory entry and charges nothing.
C26_Original ==
    [][Answered /\ (AnsweredAmount = 0 \/ ZeroBase) => Cleared]_vars

\* C26 (as the code has it): a notification whose amount is zero is a no-op
\* clearing, whatever the record; a notification of a nonzero amount for a
\* timeslice with a zero contributor base fails with InvalidContributions
\* and leaves the history and the account as they were.
C26_Clearing ==
    [][/\ Answered /\ AnsweredAmount = 0 => Cleared
       /\ Answered /\ AnsweredAmount # 0 /\ ZeroBase =>
            result'.err = "InvalidContributions" /\ RevenueUntouched]_vars

\* A notification of amount zero has just been processed: the timeslice has
\* no history left and the account is as it was.
C26_Witness ==
    /\ result = Result("Ok", "process_revenue",
                       Some([until |-> TimeslicePeriod, amount |-> 0]), << >>)
    /\ 1 \notin DOMAIN InstaPoolHistory
    /\ pot = 3

(* ------------------------------- C27 ----------------------------------- *)
\* The record of the answer's timeslice is not a valid one.
InvalidRecord ==
    \/ AnsweredRecord.total_contributions
          < AnsweredRecord.system_contributions
    \/ AnsweredRecord.total_contributions = 0

\* C27: process_revenue rejects with InvalidContributions, without clamping
\* and without modifying the InstaPoolHistory record or charging any
\* account, every nonzero-amount notification whose record has
\* total_contributions < system_contributions or total_contributions == 0
\* (including a timeslice with no history record).
C27_Rejected ==
    [][Answered /\ AnsweredAmount # 0 /\ InvalidRecord =>
         result'.err = "InvalidContributions" /\ RevenueUntouched]_vars

\* A notification of 5 has just been rejected for a record of 1 contribution
\* of which 80 would be the system's: the record and the account are as
\* they were.
C27_Witness ==
    /\ result = Result("InvalidContributions", "process_revenue",
                       Some([until |-> TimeslicePeriod, amount |-> 5]), << >>)
    /\ 1 \in DOMAIN InstaPoolHistory
    /\ InstaPoolHistory[1] = [total_contributions |-> 1,
                              system_contributions |-> PARTS,
                              maybe_payout |-> None]
    /\ pot = 3

\* The same for a timeslice that has no history record.
C27_NoRecord ==
    /\ result = Result("InvalidContributions", "process_revenue",
                       Some([until |-> 2 * TimeslicePeriod, amount |-> 5]),
                       << >>)
    /\ 2 \notin DOMAIN InstaPoolHistory

(* ------------------------------- C28 ----------------------------------- *)
\* The tick has met a malformed or duplicate revenue record.
RevenueFailed ==
    /\ IsTick
    /\ result'.err \in {"InvalidContributions", "RevenueAlreadyKnown"}

\* C28: a malformed or duplicate revenue record (InvalidContributions or
\* RevenueAlreadyKnown raised in process_revenue) does not halt the tick:
\* the tick's other work stands, the advanced Status (last_timeslice and
\* pool sizes) is persisted, and the next tick does not repeat the same
\* timeslice's rotation, pool processing or revenue request.
C28_Original ==
    [][RevenueFailed =>
         /\ Status' # None
         /\ Status'[1].last_timeslice = Status[1].last_timeslice + 1
         /\ Coretime'.requested =
               Append(Coretime.requested,
                      TimeslicePeriod * Status'[1].last_timeslice)
         /\ \A k \in 1..Len(Coretime.requested) :
               Coretime.requested[k]
                  # TimeslicePeriod * Status'[1].last_timeslice]_vars

(* ------------------------------- C29 ----------------------------------- *)
\* The tick of this step rotates the sale.
Rotating ==
    /\ IsTick
    /\ Status # None /\ Configuration # None /\ SaleInfo # None
    /\ Status[1].last_timeslice < latest \div TimeslicePeriod
    /\ Status[1].last_timeslice + 1 + Configuration[1].advance_notice
          >= SaleInfo[1].region_begin

\* The reserve price after old_sale when the sum old + extra * old saturates
\* at the largest balance.
SaturatedPrice(old_sale) ==
    IF old_sale.cores_offered > 0
         /\ old_sale.cores_sold > old_sale.ideal_cores_sold
    THEN Min(old_sale.reserve_price
               + PerbillMul(bump_extra(old_sale.cores_offered,
                                       old_sale.ideal_cores_sold,
                                       old_sale.cores_sold),
                            old_sale.reserve_price),
             MaxBalance)
    ELSE reserve_price(old_sale)

\* C29: price arithmetic at rotation never overflows or panics: for every
\* old reserve price up to the maximum balance, the bumped reserve price
\* (old + extra * old) and start_price = 2 * reserve_price saturate at the
\* maximum balance instead of wrapping or aborting.
C29_Original ==
    [][Rotating =>
         /\ result'.err # "panic"
         /\ SaleInfo' # None
         /\ SaleInfo'[1].reserve_price = SaturatedPrice(SaleInfo[1])
         /\ SaleInfo'[1].start_price =
               Min(2 * SaleInfo'[1].reserve_price, MaxBalance)]_vars

(* ------------------------------- C30 ----------------------------------- *)
\* The shares that the core's list holds for the target.
TargetShares(pairs, target) ==
    LET IsTarget(pair) == pair[1] = target
    IN  SumShares(SelectSeq(pairs, IsTarget))

\* C30: the sort-then-coalesce step applied to a core's share list is
\* idempotent: its output contains at most one entry per assignment target,
\* each carrying the sum of that target's shares, and applying the step
\* again to that output returns the same list.
C30_Original ==
    [][Emitted =>
         LET assignment == NewAssigned[1].assignment
             pairs == Intermediate(Workload'[NewAssigned[1].core])
         IN  /\ \A i, k \in 1..Len(assignment) :
                   i # k => assignment[i][1] # assignment[k][1]
             /\ \A k \in 1..Len(assignment) :
                   assignment[k][2] = TargetShares(pairs, assignment[k][1])
             /\ Coalesce(<< >>, SortPairs(assignment)) = assignment]_vars

\* What holds of every list: one entry per target, the exact sum wherever it
\* fits a u16, and the same list when the step is applied again.
C30_Fitting ==
    [][Emitted =>
         LET assignment == NewAssigned[1].assignment
             pairs == Intermediate(Workload'[NewAssigned[1].core])
         IN  /\ \A i, k \in 1..Len(assignment) :
                   i # k => assignment[i][1] # assignment[k][1]
             /\ \A k \in 1..Len(assignment) :
                   TargetShares(pairs, assignment[k][1]) <= 65535 =>
                     assignment[k][2] = TargetShares(pairs, assignment[k][1])
             /\ Coalesce(<< >>, SortPairs(assignment)) = assignment]_vars

(* ------------------------------- C31 ----------------------------------- *)
RECURSIVE IoSum(_, _)
\* The net sum of the deltas that io holds for the timeslices in keys.
IoSum(io, keys) ==
    IF keys = {} THEN [total |-> 0, system |-> 0]
    ELSE LET t == CHOOSE k \in keys : TRUE
             rest == IoSum(io, keys \ {t})
         IN  [total |-> io[t].total + rest.total,
              system |-> io[t].system + rest.system]

\* The pool sizes together with the deltas that are still to be applied:
\* a delta that is applied moves from the one to the other, the two deltas
\* of a pair add nothing, so the sum stays what it is while no delta is
\* lost and none is applied twice.
Accounted ==
    LET pending == IoSum(InstaPoolIo, DOMAIN InstaPoolIo)
    IN  [total |-> Status[1].pool_size + pending.total,
         system |-> Status[1].system_pool_size + pending.system]

\* The last timeslice that a tick has committed.
LastCommitted == Status[1].last_timeslice + Configuration[1].advance_notice

\* C31: after any sequence of ticks, Status.pool_size and
\* Status.system_pool_size equal the net sum of all InstaPoolIo deltas ever
\* recorded for timeslices at or before the last committed timeslice
\* (last_timeslice + advance_notice): every recorded delta is applied exactly
\* once, none is lost (e.g. by being recorded for an already-committed
\* timeslice or by a tick that fails after consuming it) and none is applied
\* twice.
C31_Original ==
    [][(IsTick /\ Status # None /\ Configuration # None) =>
         /\ Status' # None
         /\ Accounted' = Accounted
         /\ \A t \in DOMAIN InstaPoolIo' :
               (InstaPoolIo'[t].total # 0 \/ InstaPoolIo'[t].system # 0)
                  => t > LastCommitted']_vars

(* ------------------------------- C32 ----------------------------------- *)
\* The sales that a rotation may find: as a started broker has them, behind
\* one core of reservations or leases or none.
RotatedSales(config) ==
    {[sale EXCEPT !.first_core = first_core] :
        sale \in {x \in Sales(config) : x.cores_sold <= x.cores_offered},
        first_core \in {0, 1}}

\* A sale is open; a region may be in the pool from the start of the window
\* and another from the end of it.
InitRotate ==
    /\ SchedulerGenesis
    /\ result = Result("Ok", "genesis", << >>, << >>)
    /\ latest = 0
    /\ Workplan = << >>
    /\ Workload = << >>
    /\ InstaPoolHistory = << >>
    /\ AllowedRenewals = << >>
    /\ Regions = << >>
    /\ Coretime = [assigned |-> << >>, requested |-> << >>, revenue |-> None]
    /\ pot = 3
    /\ Configuration \in {Some(c) : c \in Configs}
    /\ Status = Some([last_timeslice |-> 0, pool_size |-> 0,
                      system_pool_size |-> 0])
    /\ SaleInfo \in {Some(sale) : sale \in RotatedSales(Configuration[1])}
    /\ Reservations \in {<< >>, <<just_pool>>, <<just_pool, just_pool>>,
                         <<just_pool, <<ScheduleItem(Task(1), complete)>> >>}
    /\ Leases \in {<< >>, << <<3, 7>> >>, << <<5, 7>> >>, << <<7, 7>> >>,
                   << <<5, 7>>, <<7, 8>> >>}
    /\ InstaPoolIo \in {<< >>,
                        Put(<< >>, 2, [total |-> PARTS, system |-> 0]),
                        Put(<< >>, 4, [total |-> PARTS, system |-> 0])}

\* rotate_sale(old_sale, config), as a tick calls it for the sale in storage.
RotateSale ==
    /\ SaleInfo # None
    /\ SaleInfo[1].region_begin <= MaxLatest
    /\ \E checked \in BOOLEAN :
          IF rotate_sale_overflows(SaleInfo[1]) /\ checked
          THEN /\ result' = Result("panic", "rotate_sale", SaleInfo, << >>)
               /\ UNCHANGED <<latest, Configuration, SaleInfo, Workplan,
                              Workload, InstaPoolIo, InstaPoolHistory,
                              Reservations, Leases, AllowedRenewals,
                              Coretime, pot, Regions>>
          ELSE /\ StoreBroker(rotate_sale(Broker, SaleInfo[1],
                                          Configuration[1]))
               /\ result' = Result("Ok", "rotate_sale", SaleInfo, << >>)
    /\ UNCHANGED Status
    /\ UNCHANGED schedulerVars

NextRotate == RotateSale

SpecRotate == InitRotate /\ [][NextRotate]_vars

\* The step is a rotation that went through.
RotatedSale == result'.op = "rotate_sale" /\ result'.err = "Ok"

\* The unsold cores of the outgoing sale, as offsets from its first core.
UnsoldCores == SaleInfo[1].cores_sold .. (SaleInfo[1].cores_offered - 1)

\* The pool parts that the reservations bring into the new window.
ReservedPool == SumPoolParts(Reservations)

\* The entry of timeslice t is the one that io has, moved by d in both counts.
MovedBy(io, t, d) ==
    /\ t \in DOMAIN InstaPoolIo'
    /\ InstaPoolIo'[t].total = IoGet(io, t).total + d
    /\ InstaPoolIo'[t].system = IoGet(io, t).system + d

\* C32: a rotation with u = cores_offered - cores_sold unsold cores in the
\* outgoing sale writes a Pool-only (complete mask) workplan for each unsold
\* core index first_core + i (cores_sold <= i < cores_offered) at the
\* outgoing region_begin, adds 80*u to both total and system of
\* InstaPoolIo[outgoing region_begin] and subtracts 80*u from both at
\* InstaPoolIo[outgoing region_end], so the two deltas of each pair sum to
\* zero. (The entry at the outgoing region_end, where the new window begins,
\* also takes the pool parts of the reservations.)
C32_Unsold ==
    [][RotatedSale =>
         LET old_sale == SaleInfo[1]
             u == Cardinality(UnsoldCores)
         IN  /\ \A i \in UnsoldCores :
                   /\ <<old_sale.region_begin, old_sale.first_core + i>>
                         \in DOMAIN Workplan'
                   /\ Workplan'[<<old_sale.region_begin,
                                  old_sale.first_core + i>>]
                         = <<[assignment |-> Pool, part |-> 0..(PARTS - 1)]>>
             /\ \A key \in DOMAIN Workplan' \ DOMAIN Workplan :
                   key[1] = old_sale.region_begin =>
                      key[2] - old_sale.first_core \in UnsoldCores
             /\ MovedBy(InstaPoolIo, old_sale.region_begin, 80 * u)
             /\ MovedBy(InstaPoolIo, old_sale.region_end,
                        ReservedPool - 80 * u)
             /\ IoSum(InstaPoolIo', DOMAIN InstaPoolIo')
                   = IoSum(InstaPoolIo, DOMAIN InstaPoolIo)]_vars

\* A sale of two cores from core 1 on, one of them sold, has just been
\* rotated out: core 2 is the pool's from timeslice 2 on, 80 parts come in at
\* timeslice 2 and go out at timeslice 4.
C32_Witness ==
    /\ result.op = "rotate_sale" /\ result.err = "Ok"
    /\ result.args[1].first_core = 1
    /\ result.args[1].cores_sold = 1 /\ result.args[1].cores_offered = 2
    /\ result.args[1].region_begin = 2
    /\ Reservations = << >>
    /\ DOMAIN Workplan = {<<2, 2>>}
    /\ Workplan[<<2, 2>>] = just_pool
    /\ InstaPoolIo[2] = [total |-> PARTS, system |-> PARTS]
    /\ InstaPoolIo[4] = [total |-> 0 - PARTS, system |-> 0 - PARTS]

(* ------------------------------- C33 ----------------------------------- *)
\* The broker is configured and has a status.
Started == Status # None /\ Configuration # None

\* C33: Workplan entries are one-shot: once the tick that commits timeslice
\* t has completed, no Workplan entry keyed (t, core) remains for any core
\* index, i.e. every workplan entry written by a rotation (unsold-core pool
\* entries, reservations, leases) is consumed by process_core_schedule at
\* its timeslice and none is left orphaned.
C33_Original ==
    Started => \A key \in DOMAIN Workplan : key[1] > LastCommitted

\* C33 (as the code has it): once the tick that commits timeslice t has
\* completed, no Workplan entry keyed (t, core) remains for a core index
\* below core_count; an entry written for a core index at or above
\* core_count is never consumed.
C33_OneShot ==
    /\ [](Started =>
            \A key \in DOMAIN Workplan :
               key[1] <= LastCommitted => key[2] >= Configuration[1].core_count)
    /\ [][Started =>
            \A key \in DOMAIN Workplan :
               key[2] >= Configuration[1].core_count =>
                  key \in DOMAIN Workplan']_vars

\* The tick that commits timeslice 4 has completed: the two reservations
\* written for timeslice 4 are consumed and sent, those written for
\* timeslice 6 wait.
C33_Witness ==
    /\ result.op = "do_tick" /\ result.err = "Ok"
    /\ Started /\ LastCommitted = 4
    /\ Reservations = <<just_pool, just_pool>>
    /\ DOMAIN Workplan = {<<6, 0>>, <<6, 1>>}
    /\ \E k \in 1..Len(Coretime.assigned) :
          Coretime.assigned[k].begin = 4 * TimeslicePeriod

(* ------------------------------- C34 ----------------------------------- *)
\* C34: a rotation writes the k-th standing reservation (k from 0, in list
\* order) to Workplan[(new region_begin, k)] and the j-th lease to
\* Workplan[(new region_begin, R + j)] where R is the number of
\* reservations, so reservations take the lowest core indices, leases the
\* next ones, and the new SaleInfo.first_core equals R plus the number of
\* leases; the new window is contiguous with the old one (new region_begin =
\* old region_end, new region_end = new region_begin + region_length).
C34_Cores ==
    [][RotatedSale =>
         LET R == Len(Reservations)
             region_begin == SaleInfo[1].region_end
         IN  /\ SaleInfo' # None
             /\ SaleInfo'[1].region_begin = region_begin
             /\ SaleInfo'[1].region_end
                   = region_begin + Configuration[1].region_length
             /\ SaleInfo'[1].first_core = R + Len(Leases)
             /\ \A k \in 0..(R - 1) :
                   /\ <<region_begin, k>> \in DOMAIN Workplan'
                   /\ Workplan'[<<region_begin, k>>] = Reservations[k + 1]
             /\ \A n \in 0..(Len(Leases) - 1) :
                   /\ <<region_begin, R + n>> \in DOMAIN Workplan'
                   /\ Workplan'[<<region_begin, R + n>>] =
                         <<[assignment |-> [kind |-> 2,
                                            para |-> Leases[n + 1][2]],
                            part |-> 0..(PARTS - 1)]>>
             /\ \A key \in DOMAIN Workplan' \ DOMAIN Workplan :
                   key[1] = region_begin => key[2] < R + Len(Leases)]_vars

\* A rotation out of the window [2, 4) with the reservations (pool, task 1)
\* and the leases of tasks 7 and 8: cores 0 and 1 are the reservations',
\* cores 2 and 3 the leases', the sale after starts at core 4.
C34_Witness ==
    /\ result.op = "rotate_sale" /\ result.err = "Ok"
    /\ result.args[1].region_end = 4
    /\ SaleInfo[1].region_begin = 4 /\ SaleInfo[1].region_end = 6
    /\ SaleInfo[1].first_core = 4
    /\ {<<4, 0>>, <<4, 1>>, <<4, 2>>, <<4, 3>>} \subseteq DOMAIN Workplan
    /\ Workplan[<<4, 0>>] = just_pool
    /\ Workplan[<<4, 1>>] = <<ScheduleItem(Task(1), complete)>>
    /\ Workplan[<<4, 2>>] = <<ScheduleItem(Task(7), complete)>>
    /\ Workplan[<<4, 3>>] = <<ScheduleItem(Task(8), complete)>>

(* ------------------------------- C35 ----------------------------------- *)
\* The step consumed the workplan of core 0 for timeslice 2.
Consumed ==
    /\ result'.op = "process_core_schedule" /\ result'.err = "Ok"
    /\ <<2, 0>> \in DOMAIN Workplan

\* The parts that the items use.
UsedParts(items) == UNION {items[k].part : k \in 1..Len(items)}

ScheduleRecur ==
    \E when \in 1..2, p \in Periodics \ {<< >>}, call \in Calls \ Heavy,
       id \in {NoName} \cup Names :
        /\ nextId <= MaxTasks - 1
        /\ schedule("Root", At(when), p, 127, call, FALSE, id)

RescheduleRecur ==
    \E id \in Names, new_time \in 1..MaxBlock : reschedule_named(id, new_time)

NextRecur == ScheduleRecur \/ RescheduleRecur \/ NextBlock

SpecRecur == Init /\ [][NextRecur]_vars

\* The named periodic tasks.
Recurring == {u \in Uids : ghost[u].named /\ ~OneShot(u)}

\* The step is a successful reschedule that moved task u.
MovedTask(u) ==
    /\ result'.op = "reschedule" /\ result'.err = "Ok"
    /\ Moved.uid = u

\* The step is the dispatch of the block in whose agenda task u waits.
Due(u) == result'.op = "on_initialize" /\ HoldsTask(Agenda, now', u)

\* Task u waits with its period and with the repetitions that its
\* executions have left of its count.
Pending(u) ==
    TaskOf(Agenda, u).maybe_periodic = <<Period(u), Repeats(u) - Count(u)>>

\* A successful reschedule of u moves its pending occurrence and nothing
\* else: nothing is executed, the task is what it was.
MovesPending(u) ==
    MovedTask(u) =>
        /\ log' = log
        /\ HoldsTask(Agenda', result'.ret[1], u)
        /\ TaskOf(Agenda', u) = TaskOf(Agenda, u)

\* The dispatch executes u at the block it waits in and, when repetitions
\* are left, puts it into the agenda one period later.
RunsOnTime(u) ==
    Due(u) =>
        /\ Count(u)' = Count(u) + 1
        /\ Runs(log', u)[Len(Runs(log', u))].at = now'
        /\ Count(u)' < Repeats(u) => HoldsTask(Agenda', now' + Period(u), u)
        /\ Count(u)' = Repeats(u) => ~InAgenda(Agenda', u)

\* C36: rescheduling a named periodic task moves only its pending
\* occurrence; after that occurrence executes at the new block t', the
\* following occurrences are at t' + period, and the total number of
\* executions over the task's life stays equal to its original count n.
C36_Original ==
    /\ [](\A u \in Recurring :
            /\ InAgenda(Agenda, u) => Pending(u)
            /\ ~InAgenda(Agenda, u) => Count(u) = Repeats(u))
    /\ [][\A u \in Recurring : MovesPending(u) /\ RunsOnTime(u)]_vars

\* The dispatch executes u at the block it waits in, unless the tasks before
\* it have used up the weight of the block: then it moves u to the next
\* block. A task that is to be put into a full agenda is cancelled instead.
RunsOrMoves(u) ==
    Due(u) =>
        \/ /\ Count(u)' = Count(u) + 1
           /\ Runs(log', u)[Len(Runs(log', u))].at = now'
           /\ Count(u)' < Repeats(u) =>
                 \/ HoldsTask(Agenda', now' + Period(u), u)
                 \/ ghost'[u].starved /\ ~InAgenda(Agenda', u)
           /\ Count(u)' = Repeats(u) => ~InAgenda(Agenda', u)
        \/ /\ Count(u)' = Count(u)
           /\ \/ /\ HoldsTask(Agenda', now' + 1, u)
                 /\ TaskOf(Agenda', u) = TaskOf(Agenda, u)
              \/ ghost'[u].starved /\ ~InAgenda(Agenda', u)

\* C36 (as the model has it): rescheduling a named periodic task moves only
\* its pending occurrence; the dispatch of the new block t' executes the
\* occurrence, or moves it to t' + 1 when the weight of the block is used
\* up; after an execution at block e the following occurrence is at e +
\* period; the executions and the repetitions left add up to the original
\* count n as long as the task is pending, and a task that is gone was
\* executed n times or was cancelled by the dispatch because the agenda it
\* had to go to was full.
C36_Recur ==
    /\ [](\A u \in Recurring :
            /\ InAgenda(Agenda, u) => Pending(u)
            /\ ~InAgenda(Agenda, u) =>
                  (Count(u) = Repeats(u) \/ ghost[u].starved))
    /\ [][\A u \in Recurring : MovesPending(u) /\ RunsOrMoves(u)]_vars

\* A named task of count 2 and period 1, scheduled for block 1, was moved to
\* block 2 and ran there; its next occurrence, due at block 3, was moved to
\* block 4 and ran there: two executions, and the task is gone.
C36_Witness ==
    \E u \in Recurring :
        /\ ghost[u].when = 1 /\ Period(u) = 1 /\ Repeats(u) = 2
        /\ ghost[u].rescheduled
        /\ Count(u) = 2
        /\ RunAt(u, 1) = 2 /\ RunAt(u, 2) = 4
        /\ ~InAgenda(Agenda, u)

(* ----------------- the name index and the agendas agree ---------------- *)
\* The names the live tasks carry, with the place of each.
NamedSlots ==
    UNION {{<<Agenda[t][k].maybe_id, t, k - 1>> :
               k \in {j \in 1..Len(Agenda[t]) : Agenda[t][j].maybe_id # NoName}} :
           t \in DOMAIN Agenda}

\* The entries of the name index.
IndexEntries == {<<n, Lookup[n][1], Lookup[n][2]>> : n \in DOMAIN Lookup}

\* C37: in every reachable state a name maps to (t, i) if and only if slot i
\* of agenda t holds a live task carrying that name, whatever calls
\* (schedule_named, reschedule_named, cancel by coordinates or by name) and
\* dispatches (postponement, periodic re-enqueue, final execution) came before.
C37_Index == IndexEntries = NamedSlots

\* A named periodic task was executed and put back behind another task of the
\* agenda, and the index names its slot.
C37_Witness ==
    \E n \in DOMAIN Lookup :
        /\ Lookup[n][2] = 1
        /\ SlotExists(Agenda, Lookup[n][1], 1)
        /\ Agenda[Lookup[n][1]][2].maybe_id = n
        /\ Count(Agenda[Lookup[n][1]][2].uid) >= 1

\* The name of a task that ran for the last time is free and was taken again.
C37_Reused ==
    \E u, v \in Uids :
        /\ u < v /\ ghost[u].named /\ ghost[v].named
        /\ ~InAgenda(Agenda, u) /\ Count(u) >= 1 /\ InAgenda(Agenda, v)

(* --------------------- preimage requests are balanced ------------------ *)
\* Anonymous one-shot and periodic light tasks, by hash or inline; preimages
\* that arrive or not; cancels.
ScheduleRequests ==
    ScheduleFrom(1..2, {<< >>, <<1, 2>>}, {127}, Calls \ Heavy, BOOLEAN,
                 {NoName}, MaxTasks - 1)

NextRequests == ScheduleRequests \/ Cancel \/ NotePreimage \/ NextBlock

SpecRequests == Init /\ [][NextRequests]_vars

\* The live tasks whose call is the hash h.
Referencing(h) ==
    {u \in Uids : InAgenda(Agenda, u) /\ TaskOf(Agenda, u).call.hashed
                                      /\ TaskOf(Agenda, u).call.i = h}

\* C38: in every reachable state the scheduler holds one request of a hash
\* for each live task that references it: scheduling by hash requests the
\* preimage and the request is released exactly once when the task leaves
\* (final execution, cancel, starvation), so a hash is requested if and only
\* if some live task references it.
C38_Balanced ==
    \A h \in Hashes :
        /\ requested[h] = Cardinality(Referencing(h))
        /\ requested[h] > 0 <=> Referencing(h) # {}

\* Two tasks were scheduled by the same hash; one has gone (executed,
\* cancelled or starved) and the other is live with the one request left.
C38_Witness ==
    \E u, v \in Uids :
        /\ u # v /\ ghost[u].hashed /\ ghost[v].hashed
        /\ ~InAgenda(Agenda, u)
        /\ Count(u) >= 1 \/ ghost[u].cancelled \/ ghost[u].starved
        /\ v \in Referencing(42)
        /\ requested[42] = 1

\* Every way out has been taken by a task scheduled by hash.
C38_Executed == \E u \in Uids : ghost[u].hashed /\ Count(u) >= 1
C38_Cancelled == \E u \in Uids : ghost[u].hashed /\ ghost[u].cancelled
C38_Starved == \E u \in Uids : ghost[u].hashed /\ ghost[u].starved

(* ------------------------------- regions -------------------------------- *)
MaxRegions == 2

RegionId(begin, core, part) == [begin |-> begin, core |-> core, part |-> part]

RegionRecord(end, owner, paid) == [end |-> end, owner |-> owner, paid |-> paid]

\* issue: the region of a whole core from begin to end.
issue(regions, core, begin, end, owner, paid) ==
    Put(regions, RegionId(begin, core, complete), RegionRecord(end, owner, paid))

RegionOwners == {1, 2}

Issue ==
    /\ Cardinality(DOMAIN Regions) < MaxRegions
    /\ \E core \in 0..(CoreCount - 1), begin \in 1..4, end \in 3..5,
          owner \in RegionOwners :
          /\ Regions' = issue(Regions, core, begin, end, owner, None)
          /\ result' = Result("Ok", "issue", <<core, begin, end, owner>>,
                              RegionId(begin, core, complete))
    /\ UNCHANGED <<latest, Status, Configuration, SaleInfo, Workplan, Workload,
                   InstaPoolIo, InstaPoolHistory, Reservations, Leases,
                   AllowedRenewals, Coretime, pot>>
    /\ UNCHANGED schedulerVars

UtilizeError(region_id, maybe_check_owner) ==
    IF Configuration = None \/ Status = None THEN "Uninitialized"
    ELSE IF region_id \notin DOMAIN Regions THEN "UnknownRegion"
    ELSE IF maybe_check_owner # None
            /\ maybe_check_owner[1] # Regions[region_id].owner THEN "NotOwner"
    ELSE "Ok"

\* The id utilize goes on with: a begin that is already committed is moved
\* to the first timeslice that is not.
Adjusted(region_id) ==
    LET last_commit_timeslice ==
            Status[1].last_timeslice + Configuration[1].advance_notice
    IN IF region_id.begin <= last_commit_timeslice
       THEN [region_id EXCEPT !.begin = last_commit_timeslice + 1]
       ELSE region_id

\* utilize: what is returned is the pair <<value, events>>.
utilize(region_id, maybe_check_owner) ==
    LET err == UtilizeError(region_id, maybe_check_owner)
    IN  IF err # "Ok"
        THEN /\ result' = Result(err, "utilize",
                                 <<region_id, maybe_check_owner>>, << >>)
             /\ UNCHANGED Regions
        ELSE LET region == Regions[region_id]
                 id == Adjusted(region_id)
             IN /\ Regions' = Remove(Regions, id)
                /\ result' = Result("Ok", "utilize",
                                    <<region_id, maybe_check_owner>>,
                                    IF id.begin < region.end
                                    THEN <<Some(<<id, region>>), << >> >>
                                    ELSE <<None, << <<"Dropped", id>> >> >>)

Utilize ==
    /\ \E core \in 0..(CoreCount - 1), begin \in 1..4,
          maybe_check_owner \in {None} \cup {Some(o) : o \in RegionOwners} :
          utilize(RegionId(begin, core, complete), maybe_check_owner)
    /\ UNCHANGED <<latest, Status, Configuration, SaleInfo, Workplan, Workload,
                   InstaPoolIo, InstaPoolHistory, Reservations, Leases,
                   AllowedRenewals, Coretime, pot>>
    /\ UNCHANGED schedulerVars

\* A started broker whose last timeslice is 0 to 2, with no region yet.
InitRegions ==
    /\ SchedulerGenesis
    /\ result = Result("Ok", "genesis", << >>, << >>)
    /\ latest = 0
    /\ Status \in {Some([last_timeslice |-> n, pool_size |-> 0,
                          system_pool_size |-> 0]) : n \in 0..2}
    /\ Configuration \in {Some(c) : c \in Configs}
    /\ SaleInfo = None
    /\ Workplan = << >>
    /\ Workload = << >>
    /\ InstaPoolIo = << >>
    /\ InstaPoolHistory = << >>
    /\ Reservations = << >>
    /\ Leases = << >>
    /\ AllowedRenewals = << >>
    /\ Regions = << >>
    /\ Coretime = [assigned |-> << >>, requested |-> << >>, revenue |-> None]
    /\ pot = 0

NextRegions == Issue \/ Utilize

SpecRegions == InitRegions /\ [][NextRegions]_vars

Utilized == result'.op = "utilize" /\ result'.err = "Ok"

\* C39: after utilize succeeds the region the caller named is no longer in
\* Regions, also when its begin was at or before the last committed
\* timeslice; a returned region begins after the last committed timeslice
\* and before its end, and a region whose adjusted begin is not before its
\* end is reported Dropped.
C39_Original ==
    [][Utilized =>
         /\ result'.args[1] \notin DOMAIN Regions'
         /\ result'.ret[1] # None =>
                /\ result'.ret[1][1][1].begin > LastCommitted
                /\ result'.ret[1][1][1].begin < result'.ret[1][1][2].end
         /\ Adjusted(result'.args[1]).begin >= Regions[result'.args[1]].end =>
                /\ result'.ret[1] = None
                /\ result'.ret[2] = << <<"Dropped", Adjusted(result'.args[1])>> >>]_vars

\* The other two parts of the claim hold: what is returned begins after the
\* last committed timeslice and before its end, and a region that has
\* nothing left is reported Dropped.
C39_Returned ==
    [][Utilized =>
         /\ result'.ret[1] # None =>
                /\ result'.ret[1][1][1].begin > LastCommitted
                /\ result'.ret[1][1][1].begin < result'.ret[1][1][2].end
         /\ Adjusted(result'.args[1]).begin >= Regions[result'.args[1]].end =>
                /\ result'.ret[1] = None
                /\ result'.ret[2] = << <<"Dropped", Adjusted(result'.args[1])>> >>]_vars

\* What utilize removes is the region at the adjusted id: the region the
\* caller named goes only when its begin was not yet committed, and another
\* region that sits at the adjusted id goes in its place.
C39_Removed ==
    [][Utilized => Regions' = Remove(Regions, Adjusted(result'.args[1]))]_vars

\* utilize succeeded on a region whose begin was already committed, and the
\* region is still in Regions.
C39_Kept ==
    /\ result.op = "utilize" /\ result.err = "Ok"
    /\ result.args[1] \in DOMAIN Regions
    /\ result.ret[1] # None
    /\ result.ret[1][1][1].begin > result.args[1].begin

(* ------------------------------ pool sizes ------------------------------ *)
\* The relay chain blocks that take the broker through three rotations.
MaxPoolLatest == 10

AdvancePool ==
    /\ latest < MaxPoolLatest
    /\ latest' = latest + 1
    /\ result' = Result("Ok", "latest", << >>, << >>)
    /\ UNCHANGED schedulerVars
    /\ UNCHANGED <<Status, Configuration, SaleInfo, Workplan, Workload,
                   InstaPoolIo, InstaPoolHistory, Reservations, Leases,
                   AllowedRenewals, Coretime, pot, Regions>>

\* A started broker with its first sale open at price 10, with or without a
\* reservation, a lease and a region that its owner put in the pool.
InitPool ==
    /\ SchedulerGenesis
    /\ result = Result("Ok", "genesis", << >>, << >>)
    /\ latest = 0
    /\ Workplan = << >>
    /\ Workload = << >>
    /\ InstaPoolHistory = << >>
    /\ AllowedRenewals = << >>
    /\ Regions = << >>
    /\ Coretime = [assigned |-> << >>, requested |-> << >>, revenue |-> None]
    /\ pot = 3
    /\ Configuration \in {Some(c) : c \in Configs}
    /\ Status = Some([last_timeslice |-> 0, pool_size |-> 0,
                      system_pool_size |-> 0])
    /\ SaleInfo \in {Some(sale) : sale \in
                       {x \in Sales(Configuration[1]) :
                           x.cores_sold <= x.cores_offered
                               /\ x.reserve_price = 10}}
    /\ Reservations \in {<< >>, <<just_pool>>}
    /\ Leases \in {<< >>, << <<3, 7>> >>, << <<5, 7>> >>}
    /\ InstaPoolIo \in {<< >>, Put(<< >>, 2, [total |-> PARTS, system |-> 0])}

NextPool == do_tick \/ AdvancePool \/ NotifyRevenue

SpecPool == InitPool /\ [][NextPool]_vars

\* A u32 that is the cast of a negative i32.
Wrapped(n) == n < 0

\* The records of InstaPoolHistory as process_pool writes them.
PoolRecords ==
    {InstaPoolHistory[t] : t \in {k \in DOMAIN InstaPoolHistory :
                                     InstaPoolHistory[k].maybe_payout = None}}

C40_Lost ==
    /\ Status # None /\ Status[1].last_timeslice >= 5
    /\ Accounted.system # 0
=============================================================================
